---- MODULE Spec2Model ----
(***************************************************************************)
(* A model of the Galaxy bus supervisor (mhuxtable/galaxy): the CRC, the   *)
(* bus transaction, the serial manager's poll loop with its per-device     *)
(* backoff, and the keypad device with its screen diff.                    *)
(*                                                                         *)
(* Conventions.                                                            *)
(*   Option<T>      a sequence: << >> is None, <<x>> is Some(x).           *)
(*   Vec<u8>, &str  a sequence of byte values 0..255.                      *)
(*   Result<T, E>   a record [ok, msg, err]: msg is an Option, err a tuple *)
(*                  naming the error (<< >> when ok).                     *)
(***************************************************************************)
EXTENDS Integers, Sequences, FiniteSets, TLC

None == << >>
Some(x) == <<x>>
IsNone(o) == o = << >>
IsSome(o) == o # << >>
Unwrap(o) == o[1]

(***************************************************************************)
(* serial/galaxy/crc.rs                                                    *)
(***************************************************************************)
CRC_SEED == 170
U16 == 65536

RECURSIVE SumBytes(_)
\* The sum of the bytes of s, by halves.
SumBytes(s) ==
    IF s = << >> THEN 0
    ELSE IF Len(s) = 1 THEN s[1]
    ELSE SumBytes(SubSeq(s, 1, Len(s) \div 2))
            + SumBytes(SubSeq(s, Len(s) \div 2 + 1, Len(s)))

\* Mutant: the high byte is dropped, not added back.
Fold_NoCarry(acc) == acc % 256

RECURSIVE Fold(_)
\* while acc > 0xFF { acc = (acc & 0xFF) + (acc >> 8) }
Fold(acc) == IF acc > 255 THEN Fold((acc % 256) + (acc \div 256)) ELSE acc

RECURSIVE CrcFrom(_, _)
\* The accumulator is a u16; every slice is added, then folded.
CrcFrom(acc, vecs) ==
    IF vecs = << >> THEN acc
    ELSE CrcFrom(Fold((acc + SumBytes(vecs[1])) % U16), Tail(vecs))

galaxy_crc_vectored(vecs) == CrcFrom(CRC_SEED, vecs) % 256

RECURSIVE AccOverflows(_, _)
\* acc += c as u16 leaves the range of u16 somewhere in vecs.
AccOverflows(acc, vecs) ==
    IF vecs = << >> THEN FALSE
    ELSE \/ acc + SumBytes(vecs[1]) >= U16
         \/ AccOverflows(Fold((acc + SumBytes(vecs[1])) % U16), Tail(vecs))

\* What a call of galaxy_crc_vectored gives in a build: an overflowing
\* addition panics where overflow checks are on (None: nothing is returned)
\* and wraps where they are off.
crc_outcome(vecs, build) ==
    IF build = "debug" /\ AccOverflows(CRC_SEED, vecs) THEN None
    ELSE Some(galaxy_crc_vectored(vecs))

galaxy_crc(msg) == galaxy_crc_vectored(<<msg>>)

\* check_galaxy_crc: Ok(()) is TRUE, Err(GalaxyCRCCheckError) is FALSE.
check_galaxy_crc(s) == s[Len(s)] = galaxy_crc(SubSeq(s, 1, Len(s) - 1))

(***************************************************************************)
(* serial/message.rs                                                       *)
(***************************************************************************)
SerialMessage(addr, cmd, data) ==
    [recipient_address |-> addr, command |-> cmd, additional_data |-> data]

Ok(m) == [ok |-> TRUE, msg |-> Some(m), err |-> << >>]
Err(e) == [ok |-> FALSE, msg |-> None, err |-> e]

\* Mutant: the additional data is left out of the frame.
serialise_without_crc_NoData(m) == <<m.recipient_address, m.command>>

serialise_without_crc(m) ==
    <<m.recipient_address, m.command>>
        \o (IF IsSome(m.additional_data) THEN Unwrap(m.additional_data) ELSE << >>)

serialise(m) ==
    LET s == serialise_without_crc(m) IN Append(s, galaxy_crc(s))

message_crc(m) ==
    galaxy_crc_vectored(
        <<(<<m.recipient_address, m.command>>)>>
            \o (IF IsSome(m.additional_data) THEN <<Unwrap(m.additional_data)>> ELSE << >>))

deserialise_unchecked(data) ==
    IF Len(data) = 0 THEN Err(<<"MissingRecipient">>)
    ELSE IF Len(data) = 1 THEN Err(<<"MissingCommand">>)
    ELSE LET rest == SubSeq(data, 3, Len(data)) IN
         Ok(SerialMessage(data[1], data[2],
                          IF Len(rest) > 0 THEN Some(rest) ELSE None))

\* SerialMessage::deserialise.  On an empty slice &data[0..data.len() - 1]
\* panics; that is Err(<<"panic">>) here.
deserialise(data) ==
    IF Len(data) = 2 THEN Err(<<"MissingCrc">>)
    ELSE IF Len(data) = 0 THEN Err(<<"panic">>)
    ELSE LET msg == deserialise_unchecked(SubSeq(data, 1, Len(data) - 1))
         IN  IF ~msg.ok THEN msg
             ELSE IF message_crc(Unwrap(msg.msg)) # data[Len(data)]
                  THEN Err(<<"CrcFailed">>)
                  ELSE msg

\* The slices SerialMessage::galaxy_crc gives to galaxy_crc_vectored.
message_slices(m) ==
    <<(<<m.recipient_address, m.command>>)>>
        \o (IF IsSome(m.additional_data) THEN <<Unwrap(m.additional_data)>> ELSE << >>)

\* What deserialise(serialise(m)) gives in a build: None where an addition
\* of the checksum panics.
round_trip_outcome(m, build) ==
    IF build = "debug"
        /\ (AccOverflows(CRC_SEED, <<serialise_without_crc(m)>>)
              \/ AccOverflows(CRC_SEED, message_slices(m)))
    THEN None
    ELSE Some(deserialise(serialise(m)))

(***************************************************************************)
(* serial/galaxy/bus.rs                                                    *)
(*                                                                         *)
(* The serial port is outside the program.  One transaction's behaviour    *)
(* of the port is a record                                                 *)
(*   write : TRUE when write_all succeeded                                 *)
(*   read  : "data" (read returned bytes), "timeout" (the 100 ms deadline  *)
(*           expired) or "ioerr" (read returned an io::Error)              *)
(*   bytes : the bytes read                                                *)
(***************************************************************************)
PANEL_ADDRESS == 17

Port(w, r, b) == [write |-> w, read |-> r, bytes |-> b]

\* The bytes put on the wire for a request: the request and its CRC.
BusFrame(request) == Append(request, galaxy_crc(request))

\* Mutant: the checksum is checked before the recipient.
send_receive_buffered_CrcFirst(request, port) ==
    LET reply == port.bytes
        bytes_read == Len(reply)
    IN  IF ~port.write THEN [ok |-> FALSE, n |-> 0, err |-> <<"IoError">>]
        ELSE IF port.read = "timeout" THEN [ok |-> FALSE, n |-> 0, err |-> <<"Timeout">>]
        ELSE IF port.read = "ioerr" THEN [ok |-> FALSE, n |-> 0, err |-> <<"IoError">>]
        ELSE IF bytes_read = 0 THEN [ok |-> FALSE, n |-> 0, err |-> <<"NoData">>]
        ELSE IF bytes_read < 3 THEN [ok |-> FALSE, n |-> 0, err |-> <<"InsufficientData">>]
        ELSE IF reply[bytes_read] # galaxy_crc(SubSeq(reply, 1, bytes_read - 1))
            THEN [ok |-> FALSE, n |-> 0, err |-> <<"CrcCheckFailed">>]
        ELSE IF reply[1] # PANEL_ADDRESS
            THEN [ok |-> FALSE, n |-> 0, err |-> <<"InvalidReplyRecipient", reply[1]>>]
        ELSE [ok |-> TRUE, n |-> bytes_read - 1, err |-> << >>]

\* Result<usize, ReadError> of send_receive_buffered, as [ok, n, err].
send_receive_buffered(request, port) ==
    LET reply == port.bytes
        bytes_read == Len(reply)
    IN  IF ~port.write THEN [ok |-> FALSE, n |-> 0, err |-> <<"IoError">>]
        ELSE IF port.read = "timeout" THEN [ok |-> FALSE, n |-> 0, err |-> <<"Timeout">>]
        ELSE IF port.read = "ioerr" THEN [ok |-> FALSE, n |-> 0, err |-> <<"IoError">>]
        ELSE IF bytes_read = 0 THEN [ok |-> FALSE, n |-> 0, err |-> <<"NoData">>]
        ELSE IF bytes_read < 3 THEN [ok |-> FALSE, n |-> 0, err |-> <<"InsufficientData">>]
        ELSE IF reply[1] # PANEL_ADDRESS
            THEN [ok |-> FALSE, n |-> 0, err |-> <<"InvalidReplyRecipient", reply[1]>>]
        ELSE IF reply[bytes_read] # galaxy_crc(SubSeq(reply, 1, bytes_read - 1))
            THEN [ok |-> FALSE, n |-> 0, err |-> <<"CrcCheckFailed">>]
        ELSE [ok |-> TRUE, n |-> bytes_read - 1, err |-> << >>]

(***************************************************************************)
(* serial/devices/keypad.rs: values and encodings                          *)
(***************************************************************************)
\* From<Command> for u8
CommandByte(c) ==
    CASE c = "Initialise" -> 0
      [] c = "Ping"       -> 6
      [] c = "Screen"     -> 7
      [] c = "KeyClicks"  -> 25
      [] c = "ButtonAck"  -> 11
      [] c = "Beeper"     -> 12
      [] c = "Backlight"  -> 13

\* Mutant: 0xF2 is not a reply command.
ReplyCommand_NoBadChecksum(b) ==
    CASE b = 244 -> "AckWithKey"
      [] b = 254 -> "Ack"
      [] b = 255 -> "Initialised"
      [] OTHER   -> "Invalid"

\* Mutant: 0xFE is not recognised as Ack.
ReplyCommand_NoAck(b) ==
    CASE b = 242 -> "BadChecksum"
      [] b = 244 -> "AckWithKey"
      [] b = 255 -> "Initialised"
      [] OTHER   -> "Invalid"

\* TryFrom<u8> for ReplyCommand; "Invalid" is Err(InvalidReplyCommandByteError).
ReplyCommand(b) ==
    CASE b = 242 -> "BadChecksum"
      [] b = 244 -> "AckWithKey"
      [] b = 254 -> "Ack"
      [] b = 255 -> "Initialised"
      [] OTHER   -> "Invalid"

\* From<KeyClicks> for u8
KeyClicksByte(k) ==
    CASE k = "Off" -> 3 [] k = "Quiet" -> 5 [] k = "Normal" -> 1

\* From<Backlight> for u8
BacklightByte(b) == IF b = "On" THEN 1 ELSE 0

BeeperOff == [mode |-> "Off", on_time |-> 0, off_time |-> 0]
BeeperOn == [mode |-> "On", on_time |-> 0, off_time |-> 0]
Intermittent(on, off) == [mode |-> "Intermittent", on_time |-> on, off_time |-> off]

\* Beeper::new_intermittent, durations in milliseconds (asserts <= 0xFF * 100).
new_intermittent(on_ms, off_ms) == Intermittent((on_ms \div 100) % 256, (off_ms \div 100) % 256)

\* From<Beeper> for Vec<u8>
BeeperBytes(b) ==
    CASE b.mode = "Off" -> <<0, 0, 0>>
      [] b.mode = "On"  -> <<1, 0, 0>>
      [] b.mode = "Intermittent" -> <<3, b.on_time, b.off_time>>

\* KEYS = "0123456789BAEX*#", as byte values.
KEYS == <<48, 49, 50, 51, 52, 53, 54, 55, 56, 57, 66, 65, 69, 88, 42, 35>>

\* Mutant: the key after the one reported.
key_to_char_OffByOne(idx) == KEYS[((idx + 1) % 16) + 1]

key_to_char(idx) == KEYS[idx + 1]

\* Mutant: the flag is read but not toggled.
get_toggle_Stuck(f, B) == [flag |-> f, byte |-> IF f THEN 0 ELSE B]

\* UpdateFlag<B>::get_toggle on a flag whose field is f: the new field and the
\* byte returned.
get_toggle(f, B) == [flag |-> ~f, byte |-> IF ~f THEN 0 ELSE B]

(***************************************************************************)
(* serial/devices/keypad.rs, mod display.  Lines are ASCII: a char is one  *)
(* byte, so len() counts characters.                                       *)
(***************************************************************************)
ASCII_SPACE == 32
LINE_WIDTH == 16
LINE_STRIDE == 64
MAX_PARTIAL_UPDATE_SCORE == 40
DISPLAY_RESET == 23
CURSOR_HIDDEN == 7
CURSOR_FIRST_LINE == 1
CURSOR_SECOND_LINE == 2
CURSOR_SEEK_BYTE == 3
CURSOR_BLOCK_STYLE == 6
CURSOR_UNDERLINE_STYLE == 16

cursor_style_op_code(style) ==
    CASE style = "None"      -> CURSOR_HIDDEN
      [] style = "Block"     -> CURSOR_BLOCK_STYLE
      [] style = "Underline" -> CURSOR_UNDERLINE_STYLE

START_OF_LINE_SEEK_OP_CODES == <<CURSOR_FIRST_LINE, CURSOR_SECOND_LINE>>

KeypadDisplayState(l0, l1, pos, style) ==
    [lines |-> <<l0, l1>>, cursor_position |-> pos, cursor_style |-> style]

\* pad_string_iterator(length, s), as the sequence it yields.
pad_string_iterator(length, s) ==
    [j \in 1..length |-> IF j <= Len(s) THEN s[j] ELSE ASCII_SPACE]

\* The 32 cells update_score compares: both lines padded and chained.
Cells(scr) ==
    pad_string_iterator(LINE_WIDTH, scr.lines[1]) \o pad_string_iterator(LINE_WIDTH, scr.lines[2])

RECURSIVE ScoreWalk(_, _, _, _, _, _)
\* The loop of update_score from cell k on (k counts from 1).
ScoreWalk(from, to, k, discrete_blocks, chars_diff, in_block) ==
    IF k > Len(to) THEN 2 * discrete_blocks + chars_diff
    ELSE IF from[k] # to[k]
         THEN ScoreWalk(from, to, k + 1,
                        IF in_block THEN discrete_blocks ELSE discrete_blocks + 1,
                        chars_diff + 1, TRUE)
         ELSE ScoreWalk(from, to, k + 1, discrete_blocks, chars_diff, FALSE)

update_score(self, from) ==
    ScoreWalk(Cells(from), Cells(self), 1, 0, 0, FALSE)
        + (IF from.cursor_style # self.cursor_style THEN 1 ELSE 0)

\* Mutant: the display is not reset first.
full_update_NoReset(self) ==
    [data |-> <<CURSOR_HIDDEN>>, cursor |-> None]

\* full_update: the bytes and the cursor position it reports.
full_update(self) ==
    LET l0 == self.lines[1]
        l1 == self.lines[2]
        d0 == <<DISPLAY_RESET, CURSOR_HIDDEN>>
        d1 == IF Len(l0) > 0 THEN d0 \o <<CURSOR_FIRST_LINE>> \o l0 ELSE d0
        c1 == IF Len(l0) > 0 THEN Some(0 * LINE_STRIDE + Len(l0) + 1) ELSE None
        d2 == IF Len(l1) > 0 THEN d1 \o <<CURSOR_SECOND_LINE>> \o l1 ELSE d1
        c2 == IF Len(l1) > 0 THEN Some(1 * LINE_STRIDE + Len(l1) + 1) ELSE c1
        d3 == IF self.cursor_style # "None"
              THEN Append(d2, cursor_style_op_code(self.cursor_style)) ELSE d2
    IN  [data |-> d3, cursor |-> c2]

RECURSIVE PartialWalk_SeekEach(_, _, _, _, _, _, _)
\* Mutant: the cursor is sought before every changed character.
PartialWalk_SeekEach(from, to, i, j, data, cursor_position, skipped_char) ==
    IF i > 1 THEN [data |-> data, cursor |-> cursor_position]
    ELSE IF j >= LINE_WIDTH
         THEN PartialWalk_SeekEach(from, to, i + 1, 0, data, cursor_position, None)
    ELSE IF from[i + 1][j + 1] # to[i + 1][j + 1]
         THEN PartialWalk_SeekEach(from, to, i, j + 1,
                  data \o <<CURSOR_SEEK_BYTE, i * LINE_STRIDE + j, to[i + 1][j + 1]>>,
                  Some(i * LINE_STRIDE + j + 1), None)
         ELSE PartialWalk_SeekEach(from, to, i, j + 1, data, cursor_position, None)

RECURSIVE PartialWalk(_, _, _, _, _, _, _)
\* The two nested loops of partial_update from line i (0 or 1), column j on.
\* from and to are the padded lines; skipped_char starts as None on each line.
PartialWalk(from, to, i, j, data, cursor_position, skipped_char) ==
    IF i > 1 THEN [data |-> data, cursor |-> cursor_position]
    ELSE IF j >= LINE_WIDTH THEN PartialWalk(from, to, i + 1, 0, data, cursor_position, None)
    ELSE
      LET a == from[i + 1][j + 1]
          b == to[i + 1][j + 1]
          offset == i * LINE_STRIDE + j
      IN  IF a # b
          THEN LET fused == IsSome(cursor_position) /\ offset - Unwrap(cursor_position) = 1
                            /\ IsSome(skipped_char)
                   \* cursor_diff >= 2, usize::MAX when the position is unknown
                   far == IsNone(cursor_position) \/ offset - Unwrap(cursor_position) >= 2
                   seek == IF fused THEN <<Unwrap(skipped_char)>>
                           ELSE IF far
                                THEN IF j = 0 THEN <<START_OF_LINE_SEEK_OP_CODES[i + 1]>>
                                     ELSE <<CURSOR_SEEK_BYTE, offset % 256>>
                                ELSE << >>
               IN  PartialWalk(from, to, i, j + 1, data \o seek \o <<b>>,
                               Some(offset + 1), None)
          ELSE PartialWalk(from, to, i, j + 1, data, cursor_position, Some(b))

\* Mutant: the cursor style is never sent.
partial_update_NoStyle(self, from) ==
    LET f == <<pad_string_iterator(LINE_WIDTH, from.lines[1]),
               pad_string_iterator(LINE_WIDTH, from.lines[2])>>
        t == <<pad_string_iterator(LINE_WIDTH, self.lines[1]),
               pad_string_iterator(LINE_WIDTH, self.lines[2])>>
    IN  PartialWalk(f, t, 0, 0, << >>, None, None)

partial_update(self, from) ==
    LET f == <<pad_string_iterator(LINE_WIDTH, from.lines[1]),
               pad_string_iterator(LINE_WIDTH, from.lines[2])>>
        t == <<pad_string_iterator(LINE_WIDTH, self.lines[1]),
               pad_string_iterator(LINE_WIDTH, self.lines[2])>>
        w == PartialWalk(f, t, 0, 0, << >>, None, None)
    IN  [data |-> IF from.cursor_style # self.cursor_style
                  THEN Append(w.data, cursor_style_op_code(self.cursor_style))
                  ELSE w.data,
         cursor |-> w.cursor]

full_score(self) == 3 + Len(self.lines[1]) + Len(self.lines[2])

\* Mutant: the partial update is also picked when the scores are equal.
UsesPartial_OrEqual(self, from) ==
    update_score(self, from) <= full_score(self)
        /\ update_score(self, from) < MAX_PARTIAL_UPDATE_SCORE

\* The strategy strategic_update picks.
UsesPartial(self, from) ==
    update_score(self, from) < full_score(self)
        /\ update_score(self, from) < MAX_PARTIAL_UPDATE_SCORE

strategic_update(self, from) ==
    LET u == IF UsesPartial(self, from) THEN partial_update(self, from) ELSE full_update(self)
    IN  IF IsSome(self.cursor_position)
           /\ (IsNone(u.cursor) \/ Unwrap(u.cursor) % 256 # Unwrap(self.cursor_position))
        THEN u.data \o <<CURSOR_SEEK_BYTE, Unwrap(self.cursor_position)>>
        ELSE u.data

\* KeypadDisplayState::default
DefaultDisplay ==
    KeypadDisplayState(
        <<32, 32, 32, 32, 42, 42, 42, 42, 42, 42, 42, 42, 32, 32, 32, 32>>,
        <<80, 97, 110, 101, 108, 32, 98, 111, 111, 116, 105, 110, 103, 32, 117, 112>>,
        None, "None")

(***************************************************************************)
(* serial/devices/keypad.rs: SerialKeypad                                  *)
(***************************************************************************)
\* State::default
DefaultState ==
    [backlight |-> "Off", beeper |-> BeeperOff, blink |-> FALSE,
     key_clicks |-> "Off", screen |-> DefaultDisplay]

\* KeypadUpdates::default
DefaultUpdates ==
    [send_key_ack |-> FALSE, send_backlight |-> FALSE, send_beeper |-> FALSE,
     send_key_clicks |-> FALSE, send_screen |-> FALSE,
     screen_update_flag |-> TRUE, key_update_flag |-> TRUE]

\* Mutant: the key acknowledgement a Screen command carries stays pending.
DisplayFlags_KeepsAck(current_state, updates) ==
    LET s == get_toggle(updates.screen_update_flag, 128)
        k == get_toggle(updates.key_update_flag, 2)
    IN  [byte |-> 1 + s.byte
                    + (IF updates.send_key_ack THEN 16 + k.byte ELSE 0)
                    + (IF current_state.blink THEN 8 ELSE 0),
         updates |-> IF updates.send_key_ack
                     THEN [updates EXCEPT !.screen_update_flag = s.flag,
                                          !.key_update_flag = k.flag]
                     ELSE [updates EXCEPT !.screen_update_flag = s.flag]]

\* Mutant: a Screen command never carries the key acknowledgement.
DisplayFlags_NoAck(current_state, updates) ==
    LET s == get_toggle(updates.screen_update_flag, 128)
    IN  [byte |-> 1 + s.byte + (IF current_state.blink THEN 8 ELSE 0),
         updates |-> [updates EXCEPT !.screen_update_flag = s.flag]]

\* The display_flags byte of a Screen command and the updates it leaves.
\* The bits or-ed together are distinct, so the sum is the bitwise or.
DisplayFlags(current_state, updates) ==
    LET s == get_toggle(updates.screen_update_flag, 128)
        k == get_toggle(updates.key_update_flag, 2)
    IN  [byte |-> 1 + s.byte
                    + (IF updates.send_key_ack THEN 16 + k.byte ELSE 0)
                    + (IF current_state.blink THEN 8 ELSE 0),
         updates |-> IF updates.send_key_ack
                     THEN [updates EXCEPT !.screen_update_flag = s.flag,
                                          !.send_key_ack = FALSE,
                                          !.key_update_flag = k.flag]
                     ELSE [updates EXCEPT !.screen_update_flag = s.flag]]

\* Mutant: a pending key acknowledgement goes out before anything else.
next_command_AckFirst(current_state, last, updates) ==
    IF updates.send_key_ack
    THEN [command |-> "ButtonAck", data |-> Some(<<0>>),
          last_state |-> Some(last),
          updates |-> [updates EXCEPT !.send_key_ack = FALSE]]
    ELSE [command |-> "Ping", data |-> None,
          last_state |-> Some(last), updates |-> updates]

\* next_command: the command chosen while online (last is the unwrapped
\* last_state), with the last_state and updates it leaves behind.
next_command(current_state, last, updates) ==
    IF updates.send_backlight \/ current_state.backlight # last.backlight
    THEN [command |-> "Backlight",
          data |-> Some(<<BacklightByte(current_state.backlight)>>),
          last_state |-> Some([last EXCEPT !.backlight = current_state.backlight]),
          updates |-> [updates EXCEPT !.send_backlight = FALSE]]
    ELSE IF updates.send_beeper \/ current_state.beeper # last.beeper
    THEN [command |-> "Beeper",
          data |-> Some(BeeperBytes(current_state.beeper)),
          last_state |-> Some([last EXCEPT !.beeper = current_state.beeper]),
          updates |-> [updates EXCEPT !.send_beeper = FALSE]]
    ELSE IF updates.send_key_clicks \/ current_state.key_clicks # last.key_clicks
    THEN [command |-> "KeyClicks",
          data |-> Some(<<KeyClicksByte(current_state.key_clicks)>>),
          last_state |-> Some([last EXCEPT !.key_clicks = current_state.key_clicks]),
          updates |-> [updates EXCEPT !.send_key_clicks = FALSE]]
    ELSE IF updates.send_screen \/ current_state.screen # last.screen
            \/ current_state.blink # last.blink
    THEN LET f == DisplayFlags(current_state, updates)
             body == IF updates.send_screen
                     THEN full_update(current_state.screen).data
                     ELSE strategic_update(current_state.screen, last.screen)
         IN  [command |-> "Screen",
              data |-> Some(<<f.byte>> \o body),
              last_state |-> Some([last EXCEPT !.screen = current_state.screen]),
              updates |-> [f.updates EXCEPT !.send_screen = FALSE]]
    ELSE IF updates.send_key_ack
    THEN LET k == get_toggle(updates.key_update_flag, 2)
         IN  [command |-> "ButtonAck",
              data |-> Some(<<k.byte>>),
              last_state |-> Some(last),
              updates |-> [updates EXCEPT !.send_key_ack = FALSE,
                                          !.key_update_flag = k.flag]]
    ELSE [command |-> "Ping", data |-> None,
          last_state |-> Some(last), updates |-> updates]

\* Mutant: a keypad that is not initialised is pinged.
next_message_PingWhenOffline(current_state, last_opt, updates) ==
    IF IsNone(last_opt)
    THEN [command |-> CommandByte("Ping"), data |-> None,
          last_state |-> last_opt, updates |-> updates]
    ELSE LET c == next_command(current_state, Unwrap(last_opt), updates)
         IN  [c EXCEPT !.command = CommandByte(c.command)]

\* SerialDevice::next_message for SerialKeypad: the (u8, Option<Vec<u8>>)
\* returned and the last_state and updates left behind.
next_message(current_state, last_opt, updates) ==
    IF IsNone(last_opt)
    THEN [command |-> CommandByte("Initialise"), data |-> Some(<<14>>),
          last_state |-> last_opt, updates |-> updates]
    ELSE LET c == next_command(current_state, Unwrap(last_opt), updates)
         IN  [c EXCEPT !.command = CommandByte(c.command)]

\* Mutant: no payload is accepted.
validate_additional_data_Never(reply, len) == FALSE

\* Mutant: a payload longer than asked for is accepted.
validate_additional_data_Longer(reply, len) ==
    IsSome(reply.additional_data) /\ Len(Unwrap(reply.additional_data)) >= len

\* validate_additional_data!(reply, len)
validate_additional_data(reply, len) ==
    IsSome(reply.additional_data) /\ Len(Unwrap(reply.additional_data)) = len

\* Mutant: a key is reported again while the acknowledgement of the last
\* one is still to be sent.
receive_update_Repeats(msg, current_state, last_opt, tamper_now, updates) ==
    LET same == [last_state |-> last_opt, tamper |-> tamper_now,
                 updates |-> updates, event |-> None]
    IN  IF ~msg.ok THEN [same EXCEPT !.last_state = None]
        ELSE
          LET reply == Unwrap(msg.msg)
              kind == ReplyCommand(reply.command)
          IN  CASE kind = "Initialised" ->
                     IF IsSome(last_opt) THEN same
                     ELSE IF ~validate_additional_data(reply, 3) THEN same
                     ELSE IF Unwrap(reply.additional_data) = <<8, 0, 100>>
                          THEN [last_state |-> Some(current_state),
                                tamper |-> FALSE,
                                updates |-> [updates EXCEPT !.send_backlight = TRUE,
                                                            !.send_beeper = TRUE,
                                                            !.send_key_clicks = TRUE,
                                                            !.send_screen = TRUE],
                                event |-> None]
                          ELSE same
                [] kind = "Ack" -> [same EXCEPT !.tamper = FALSE]
                [] kind = "AckWithKey" ->
                     IF ~validate_additional_data(reply, 1) THEN same
                     ELSE LET data == Unwrap(reply.additional_data)[1]
                          IN  IF data = 127 THEN [same EXCEPT !.tamper = TRUE]
                              ELSE [last_state |-> last_opt,
                                    tamper |-> (data \div 64) % 2 = 1,
                                    updates |-> [updates EXCEPT !.send_key_ack = TRUE],
                                    event |-> Some(key_to_char(data % 16))]
                [] kind = "BadChecksum" -> [same EXCEPT !.last_state = None]
                [] kind = "Invalid" -> same

\* SerialDevice::receive_update for SerialKeypad: the last_state, tamper and
\* updates it leaves, and the event it sends on the channel (an Option).
receive_update(msg, current_state, last_opt, tamper_now, updates) ==
    LET same == [last_state |-> last_opt, tamper |-> tamper_now,
                 updates |-> updates, event |-> None]
    IN  IF ~msg.ok THEN [same EXCEPT !.last_state = None]
        ELSE
          LET reply == Unwrap(msg.msg)
              kind == ReplyCommand(reply.command)
          IN  CASE kind = "Initialised" ->
                     IF IsSome(last_opt) THEN same
                     ELSE IF ~validate_additional_data(reply, 3) THEN same
                     ELSE IF Unwrap(reply.additional_data) = <<8, 0, 100>>
                          THEN [last_state |-> Some(current_state),
                                tamper |-> FALSE,
                                updates |-> [updates EXCEPT !.send_backlight = TRUE,
                                                            !.send_beeper = TRUE,
                                                            !.send_key_clicks = TRUE,
                                                            !.send_screen = TRUE],
                                event |-> None]
                          ELSE same
                [] kind = "Ack" -> [same EXCEPT !.tamper = FALSE]
                [] kind = "AckWithKey" ->
                     IF ~validate_additional_data(reply, 1) THEN same
                     ELSE LET data == Unwrap(reply.additional_data)[1]
                          IN  IF data = 127 THEN [same EXCEPT !.tamper = TRUE]
                              ELSE IF ~updates.send_key_ack
                                   THEN [last_state |-> last_opt,
                                         tamper |-> (data \div 64) % 2 = 1,
                                         updates |-> [updates EXCEPT !.send_key_ack = TRUE],
                                         event |-> Some(key_to_char(data % 16))]
                                   ELSE [same EXCEPT !.tamper = (data \div 64) % 2 = 1]
                [] kind = "BadChecksum" -> [same EXCEPT !.last_state = None]
                [] kind = "Invalid" -> same

(***************************************************************************)
(* serial/manager.rs: BackoffState.  backoff_devices is the HashMap, a     *)
(* function from the ids it holds to <<current_backoff, max_backoff>>.     *)
(***************************************************************************)
MAX_BACKOFF_CYCLES == 4

Min(a, b) == IF a < b THEN a ELSE b

RECURSIVE Pow2(_)
\* 1 << n
Pow2(n) == IF n = 0 THEN 1 ELSE 2 * Pow2(n - 1)

\* Mutant: the device is never recorded.
mark_device_backoff_Forgotten(b, id) == b

\* Mutant: a repeated marking leaves the skip count where a first one puts it.
mark_device_backoff_Constant(b, id) ==
    IF id \in DOMAIN b
    THEN [b EXCEPT ![id] = <<2, Min(b[id][2] + 1, MAX_BACKOFF_CYCLES)>>]
    ELSE [k \in DOMAIN b \cup {id} |-> IF k = id THEN <<2, 0>> ELSE b[k]]

mark_device_backoff(b, id) ==
    IF id \in DOMAIN b
    THEN LET max_backoff == Min(b[id][2] + 1, MAX_BACKOFF_CYCLES)
         IN  [b EXCEPT ![id] = <<1 + Pow2(max_backoff), max_backoff>>]
    ELSE [k \in DOMAIN b \cup {id} |-> IF k = id THEN <<2, 0>> ELSE b[k]]

\* Mutant: an expired entry is reported as None but never removed.
visit_device_KeepsEntry(b, id) ==
    IF id \in DOMAIN b
    THEN IF b[id][1] = 0
         THEN [backoff |-> b, result |-> None]
         ELSE LET c == b[id][1] - 1
              IN  [backoff |-> [b EXCEPT ![id] = <<c, b[id][2]>>],
                   result |-> IF c = 0 THEN None ELSE Some(c)]
    ELSE [backoff |-> b, result |-> None]

\* visit_device: the table it leaves and the Option<usize> it returns.
\* Mutant: the entry is removed by the visit at which it expires.
visit_device_RemovesAtExpiry(b, id) ==
    IF id \in DOMAIN b
    THEN IF b[id][1] <= 1
         THEN [backoff |-> [k \in DOMAIN b \ {id} |-> b[k]], result |-> None]
         ELSE [backoff |-> [b EXCEPT ![id] = <<b[id][1] - 1, b[id][2]>>],
               result |-> Some(b[id][1] - 1)]
    ELSE [backoff |-> b, result |-> None]

visit_device(b, id) ==
    IF id \in DOMAIN b
    THEN IF b[id][1] = 0
         THEN [backoff |-> [k \in DOMAIN b \ {id} |-> b[k]], result |-> None]
         ELSE LET c == b[id][1] - 1
              IN  [backoff |-> [b EXCEPT ![id] = <<c, b[id][2]>>],
                   result |-> IF c = 0 THEN None ELSE Some(c)]
    ELSE [backoff |-> b, result |-> None]

(***************************************************************************)
(* serial/manager.rs: SerialManager                                        *)
(***************************************************************************)
LAST_MESSAGE_BAD_CHECKSUM_REPLY_COMMAND == 242
RETRIES == 3
KEYPAD_ADDRESS == 16

\* The map_err closure of poll_device: ReadError to DeliveryError.
MapReadError(e) ==
    CASE e[1] = "NoData"           -> <<"Timeout">>
      [] e[1] = "CrcCheckFailed"   -> <<"CrcFailed">>
      [] e[1] = "InsufficientData" -> <<"CrcFailed">>
      [] OTHER                     -> <<"BusError">> \o e

\* One bus transaction of poll_device: send_receive_buffered, map_err and
\* and_then(deserialise_unchecked), a Result<SerialMessage, DeliveryError>.
BusTransaction(request, port) ==
    LET r == send_receive_buffered(request, port)
    IN  IF ~r.ok THEN Err(MapReadError(r.err))
        ELSE LET d == deserialise_unchecked(SubSeq(port.bytes, 1, r.n))
             IN  IF d.ok THEN d ELSE Err(<<"DeserialisationError">> \o d.err)

should_retry(reply_status) ==
    IF reply_status.ok
    THEN Unwrap(reply_status.msg).command = LAST_MESSAGE_BAD_CHECKSUM_REPLY_COMMAND
    ELSE TRUE

\* Mutant: the loop runs once more than it has retries.
LoopCondition_OneMore(retries, reply_status) == retries >= 0 /\ ~reply_status.ok

\* The condition of poll_device's while loop.
LoopCondition(retries, reply_status) == retries > 0 /\ ~reply_status.ok

\* The (failures, status) run() assigns from a poll's result.
Classify(st, result) ==
    IF result.ok THEN [status |-> "OnlineOK", failures |-> 0]
    ELSE [status |-> IF result.err[1] \in {"Timeout", "BusError"}
                     THEN "Offline" ELSE "OnlineCorruptReplies",
          failures |-> (st.failures + 1) % U16]

\* state.failures + 1 does not fit the u16.  A build with overflow checks
\* panics there; one without them wraps, as Classify does.
Overflows(st, result) == ~result.ok /\ st.failures + 1 >= U16

\* DeviceState::new
NewDeviceState == [status |-> "Unknown", failures |-> 0]

(***************************************************************************)
(* Bounds and input sets                                                   *)
(***************************************************************************)
\* A device is followed while its failures counter is within this distance
\* of either end of its range.
MaxFailures == 7

\* The move of the failures counter from old to new stays within the bound.
Followed(old, new) ==
    new.failures <= MaxFailures \/ old.failures >= U16 - 1 - MaxFailures

DeviceIds == {KEYPAD_ADDRESS}

\* A reply frame as a device puts it on the wire.
Frame(body) == Append(body, galaxy_crc(body))

AckFrame == Frame(<<PANEL_ADDRESS, 254>>)
InitialisedFrame == Frame(<<PANEL_ADDRESS, 255, 8, 0, 100>>)
BadChecksumFrame == Frame(<<PANEL_ADDRESS, 242>>)

\* What the port can do in one transaction of the manager's loop.
Ports ==
    { Port(FALSE, "data", << >>),                       \* write_all fails
      Port(TRUE, "timeout", << >>),                     \* nothing within 100 ms
      Port(TRUE, "ioerr", << >>),
      Port(TRUE, "data", << >>),                        \* read returns 0 bytes
      Port(TRUE, "data", <<PANEL_ADDRESS, 254>>),       \* a reply cut short
      Port(TRUE, "data", <<PANEL_ADDRESS, 254, 0>>),    \* a wrong CRC
      Port(TRUE, "data", Frame(<<KEYPAD_ADDRESS, 254>>)), \* not for the panel
      Port(TRUE, "data", AckFrame),
      Port(TRUE, "data", InitialisedFrame),
      Port(TRUE, "data", BadChecksumFrame) }

(***************************************************************************)
(* State                                                                   *)
(***************************************************************************)
VARIABLES
    \* SerialManager
    devices,          \* HashMap<u8, DeviceState>: id -> [status, failures]
    backoff_devices,  \* BackoffState
    \* run() and poll_device(): where the task is, and its locals
    pc,               \* "new", "visit", "poll", "attempt", "deliver", "sleep"
    device_ids,       \* run's device_ids
    idx,              \* the position of the for loop in device_ids
    request,          \* poll_device's data: the frame without its CRC
    retries_left,
    reply_status,
    \* SerialKeypad
    state, last_state, tamper, updates,
    events,           \* the events sent on event_ch, oldest first
    \* History, for stating the properties
    tried,            \* the bus transactions of the poll in progress or last made:
                      \* "Err", "BadChecksum" (a valid 0xF2 reply) or "Ok" each
    wire,             \* the frames written to the port in that poll
    calls,            \* the SerialDevice methods that poll has called, in order
    lastCall,         \* the last SerialDevice method called on the keypad
    sent,             \* what the last next_message returned
    delivered,        \* Some(what the last receive_update was given)
    skipped,          \* id -> cycles in a row in which the device was skipped
    outcome,          \* id -> Some(result of its last poll)
    lastVisit,        \* how the last call on the backoff table ended: "marked",
                      \* or for visit_device "skipped" (Some), "expired" (None as
                      \* the counter reached 0), "removed" (None, entry dropped),
                      \* "absent" (None, no entry); "none" before any call
    round,            \* markings made since the table last had no entry
    prev_skipped,     \* the cycles skipped in the round before this one
    since_init,       \* Some(the commands next_message returned since the last
                      \* successful initialisation), None once a delivery
                      \* error or a BadChecksum reply has come after it
    screens,          \* the Screen commands next_message has returned, mod 2
    key_acks,         \* the key acknowledgements it has returned, mod 2
    poll_flags,       \* <<screen_update_flag, key_update_flag>> as the last
                      \* next_message found them
    screen_bit,       \* Some(bit 0x80 of the flags of the last Screen command)
    key_bit,          \* Some(bit 0x02 of the last key acknowledgement)
    acks,             \* the key acknowledgements next_message has returned
    waited,           \* the calls of next_message in a row that left a key unacknowledged
    \* The tasks around the keypad
    accepted,         \* the keys receive_update set send_key_ack for, oldest first
    handler,          \* Some(the key receive_update has yet to publish) while
                      \* it is between lines 347 and 350, else None
    subscribers,      \* the receivers subscribe_events has handed out
    tamper_seen,      \* Some(what the last is_tamper() returned)
    \* History of run()
    registered,       \* the ids given to register_device, in the order of the calls
    bus_error,        \* Some(the ReadError of the last bus transaction), None
                      \* when it returned Ok or none has been made
    quiet,            \* from now on no task mutates state and every reply is Ack
    task_at,          \* per task: the call it is in, and the lock it is about to take
    held,             \* per lock: who holds it, and how
    \* A function of the program called on its own
    input,            \* Some(the arguments), None when none is being called
    output            \* Some(what the last call returned)

mgr_vars == <<devices, backoff_devices, pc, device_ids, idx, request, retries_left,
              reply_status>>
kp_vars == <<state, last_state, tamper, updates, events>>
bo_vars == <<lastVisit, round, prev_skipped>>
hist_vars == <<tried, wire, calls, lastCall, sent, delivered, skipped, outcome, bo_vars>>
emit_vars == <<since_init, screens, key_acks, poll_flags, screen_bit, key_bit, acks, waited>>
task_vars == <<accepted, handler, subscribers, tamper_seen>>
lock_vars == <<task_at, held>>
trace_vars == <<registered, bus_error, quiet, lock_vars>>
fn_vars == <<input, output>>
vars == <<mgr_vars, kp_vars, hist_vars, emit_vars, task_vars, trace_vars, fn_vars>>

NoMessage == [command |-> 0, data |-> None]

\* SerialKeypad::new
InitKeypad ==
    /\ state = DefaultState
    /\ last_state = None
    /\ tamper = FALSE
    /\ updates = DefaultUpdates
    /\ events = << >>

\* SerialManager::new
InitManager ==
    /\ devices = << >>
    /\ backoff_devices = << >>
    /\ pc = "new"
    /\ device_ids = << >>
    /\ idx = 1
    /\ request = << >>
    /\ retries_left = 0
    /\ reply_status = Err(<<"Timeout">>)

InitHistory ==
    /\ tried = << >>
    /\ wire = << >>
    /\ calls = << >>
    /\ lastCall = "none"
    /\ sent = NoMessage
    /\ delivered = None
    /\ skipped = << >>
    /\ outcome = << >>
    /\ lastVisit = "none"
    /\ round = 0
    /\ prev_skipped = 0
    /\ since_init = None
    /\ screens = 0
    /\ key_acks = 0
    /\ poll_flags = <<TRUE, TRUE>>
    /\ screen_bit = None
    /\ key_bit = None
    /\ acks = 0 /\ waited = 0

\* No task has called anything on the keypad yet.
InitTasks ==
    /\ accepted = << >>
    /\ handler = None
    /\ subscribers = 0
    /\ tamper_seen = None

\* The tasks that call into the keypad: the serial manager's task, and the
\* tasks of the UI.
Tasks == {"manager", "ui1", "ui2"}
UiTasks == Tasks \ {"manager"}

\* The locks of SerialKeypad: state and last_state are RwLocks, the others
\* are Mutexes.
Locks == {"state", "last_state", "tamper", "updates", "event_ch"}

\* A task at position pos of its code, in a call whose argument is arg.
At(pos, arg) == [pos |-> pos, arg |-> arg]

\* No lock is held; the manager is about to call next_message, the UI tasks
\* are outside the keypad.
InitLocks ==
    /\ task_at = [t \in Tasks |-> IF t = "manager" THEN At("next_message", None)
                                  ELSE At("idle", None)]
    /\ held = [l \in Locks |-> {}]

\* No device is registered, no bus transaction was made.
InitTrace ==
    /\ registered = << >>
    /\ bus_error = None
    /\ quiet = FALSE
    /\ InitLocks

\* No function is being called on its own.
InitFunctions ==
    /\ input = None
    /\ output = None

Init == InitManager /\ InitKeypad /\ InitHistory /\ InitTasks /\ InitTrace /\ InitFunctions

\* Mutant: next_message does not wait for the updates mutex.
UpdatesLocked_Never == FALSE

\* receive_update holds the updates mutex, and the tamper mutex, from its
\* start until it returns.
UpdatesLocked == IsSome(handler)
TamperLocked == IsSome(handler)

\* Bit b (a power of two) of byte x is set.
BitSet(x, b) == (x \div b) % 2 = 1

\* The message carries a key acknowledgement: ButtonAck, or Screen with 0x10.
IsKeyAck(m) ==
    \/ m.command = 11
    \/ m.command = 7 /\ BitSet(Unwrap(m.data)[1], 16)

\* The history of emissions after next_message returned m.
NoteMessage(m) ==
    /\ since_init' = IF IsSome(since_init)
                     THEN Some(Unwrap(since_init) \cup {m.command}) ELSE since_init
    /\ screens' = IF m.command = 7 THEN 1 - screens ELSE screens
    /\ key_acks' = IF IsKeyAck(m) THEN 1 - key_acks ELSE key_acks
    /\ poll_flags' = <<updates.screen_update_flag, updates.key_update_flag>>
    /\ screen_bit' = IF m.command = 7
                     THEN Some(IF BitSet(Unwrap(m.data)[1], 128) THEN 128 ELSE 0)
                     ELSE screen_bit
    /\ key_bit' = IF IsKeyAck(m)
                  THEN Some(IF BitSet(Unwrap(m.data)[1], 2) THEN 2 ELSE 0)
                  ELSE key_bit
    /\ acks' = IF IsKeyAck(m) THEN acks + 1 ELSE acks
    /\ waited' = IF updates.send_key_ack /\ IsSome(last_state) /\ ~IsKeyAck(m)
                 THEN (IF waited < 4 THEN waited + 1 ELSE waited)
                 ELSE 0

\* The reply is Initialised with the payload of a successful initialisation.
IsInitialised(msg) ==
    /\ msg.ok
    /\ Unwrap(msg.msg).command = 255
    /\ Unwrap(msg.msg).additional_data = Some(<<8, 0, 100>>)

\* A delivery error or a BadChecksum reply.
IsLoss(msg) ==
    ~msg.ok \/ Unwrap(msg.msg).command = LAST_MESSAGE_BAD_CHECKSUM_REPLY_COMMAND

\* The history of emissions after receive_update was given msg.
NoteReply(msg) ==
    /\ since_init' = IF IsLoss(msg) THEN None
                     ELSE IF IsInitialised(msg) /\ IsNone(last_state) THEN Some({})
                     ELSE since_init
    /\ waited' = IF IsLoss(msg) THEN 0 ELSE waited
    /\ UNCHANGED <<screens, key_acks, poll_flags, screen_bit, key_bit, acks>>

\* How a bus transaction ended, for the history.
ResultKind(r) ==
    IF ~r.ok THEN "Err"
    ELSE IF Unwrap(r.msg).command = LAST_MESSAGE_BAD_CHECKSUM_REPLY_COMMAND THEN "BadChecksum"
    ELSE "Ok"

attempts == Len(tried)

\* How a call of visit_device on table b ended, for the history.
VisitKind(b, id, result) ==
    IF IsSome(result) THEN "skipped"
    ELSE IF id \notin DOMAIN b THEN "absent"
    ELSE IF b[id][1] = 0 THEN "removed"
    ELSE "expired"

\* f with key k set to v (k may be new).
Put(f, k, v) == [x \in DOMAIN f \cup {k} |-> IF x = k THEN v ELSE f[x]]

\* The orders in which a HashMap's keys() can yield the keys in S.
Orders(S) ==
    {q \in [1..Cardinality(S) -> S] : \A i, j \in 1..Cardinality(S) : i # j => q[i] # q[j]}

(***************************************************************************)
(* Actions of the manager task                                             *)
(***************************************************************************)
\* register_device(id, keypad); a duplicate id panics.
RegisterDevice(id) ==
    /\ pc = "new"
    /\ id \notin DOMAIN devices
    /\ devices' = Put(devices, id, NewDeviceState)
    /\ skipped' = Put(skipped, id, 0)
    /\ outcome' = Put(outcome, id, None)
    /\ registered' = Append(registered, id)
    /\ UNCHANGED <<fn_vars, bus_error, quiet, lock_vars, emit_vars, task_vars, backoff_devices, pc, device_ids, idx, request, retries_left,
                   reply_status, kp_vars, tried, wire, calls, lastCall, sent, delivered, bo_vars>>

\* run(): device_ids is collected, the loop is entered.
Run ==
    /\ pc = "new"
    /\ DOMAIN devices # {}
    /\ device_ids' \in Orders(DOMAIN devices)
    /\ idx' = 1
    /\ pc' = "visit"
    /\ UNCHANGED <<fn_vars, trace_vars, emit_vars, task_vars, devices, backoff_devices, request, retries_left, reply_status,
                   kp_vars, hist_vars>>

\* The for loop moves on from position idx.
Advance ==
    IF idx < Len(device_ids)
    THEN idx' = idx + 1 /\ pc' = "visit"
    ELSE idx' = 1 /\ pc' = "sleep"

\* The head of the for loop body: backoff.visit_device(id).
Visit ==
    /\ pc = "visit"
    /\ LET id == device_ids[idx]
           v == visit_device(backoff_devices, id)
       IN  /\ backoff_devices' = v.backoff
           /\ lastVisit' = VisitKind(backoff_devices, id, v.result)
           /\ IF IsSome(v.result)
              THEN /\ Advance
                   /\ skipped' = [skipped EXCEPT ![id] = @ + 1]
              ELSE /\ pc' = "poll"
                   /\ idx' = idx
                   /\ skipped' = skipped
    /\ UNCHANGED <<fn_vars, trace_vars, emit_vars, task_vars, devices, device_ids, request, retries_left, reply_status, kp_vars,
                   tried, wire, calls, lastCall, sent, delivered, outcome, round,
                   prev_skipped>>

\* poll_device up to its while loop: next_message and serialise_without_crc.
PollBegin ==
    /\ pc = "poll"
    /\ \E id \in {device_ids[idx]}, m \in {next_message(state, last_state, updates)} :
           /\ last_state' = m.last_state
           /\ updates' = m.updates
           /\ request' = serialise_without_crc(SerialMessage(id, m.command, m.data))
           /\ sent' = [command |-> m.command, data |-> m.data]
           /\ NoteMessage(m)
           /\ skipped' = [skipped EXCEPT ![id] = 0]
    /\ retries_left' = RETRIES
    /\ reply_status' = Err(<<"Timeout">>)
    /\ pc' = "attempt"
    /\ tried' = << >>
    /\ wire' = << >>
    /\ calls' = <<"next_message">>
    /\ lastCall' = "next_message"
    /\ delivered' = None
    /\ bus_error' = None
    /\ UNCHANGED <<fn_vars, registered, quiet, lock_vars, task_vars, devices, backoff_devices, device_ids, idx, state, tamper, events,
                   outcome, bo_vars>>

\* One iteration of poll_device's while loop, the port behaving as port.
Attempt(port) ==
    /\ pc = "attempt"
    /\ LET r == BusTransaction(request, port)
           left == IF should_retry(r) THEN retries_left - 1 ELSE retries_left
       IN  /\ reply_status' = r
           /\ tried' = Append(tried, ResultKind(r))
           /\ retries_left' = left
           /\ pc' = IF LoopCondition(left, r) THEN "attempt" ELSE "deliver"
    /\ wire' = IF port.write THEN Append(wire, BusFrame(request)) ELSE wire
    /\ bus_error' = LET r == send_receive_buffered(request, port)
                    IN  IF r.ok THEN None ELSE Some(r.err)
    /\ UNCHANGED <<fn_vars, registered, quiet, lock_vars, emit_vars, task_vars, devices, backoff_devices, device_ids, idx, request, kp_vars,
                   calls, lastCall, sent, delivered, skipped, outcome, bo_vars>>

\* The rest of poll_device and of the for loop body: receive_update, the
\* (failures, status) assignment and mark_device_backoff.
Deliver ==
    /\ pc = "deliver"
    /\ LET id == device_ids[idx]
           u == receive_update(reply_status, state, last_state, tamper, updates)
           st == Classify(devices[id], reply_status)
       IN  /\ Followed(devices[id], st)
           /\ last_state' = u.last_state
           /\ tamper' = u.tamper
           /\ updates' = u.updates
           /\ events' = IF IsSome(u.event) THEN Append(events, Unwrap(u.event)) ELSE events
           /\ accepted' = IF IsSome(u.event) THEN Append(accepted, Unwrap(u.event))
                          ELSE accepted
           /\ NoteReply(reply_status)
           /\ devices' = [devices EXCEPT ![id] = st]
           /\ backoff_devices' = IF st.status = "Offline"
                                 THEN mark_device_backoff(backoff_devices, id)
                                 ELSE backoff_devices
           /\ lastVisit' = IF st.status = "Offline" THEN "marked" ELSE lastVisit
           /\ outcome' = [outcome EXCEPT ![id] = Some(reply_status)]
    /\ delivered' = Some(reply_status)
    /\ calls' = Append(calls, "receive_update")
    /\ lastCall' = "receive_update"
    /\ Advance
    /\ UNCHANGED <<fn_vars, trace_vars, handler, subscribers, tamper_seen, device_ids, request, retries_left, reply_status, state, tried,
                   wire, sent, skipped, round, prev_skipped>>

\* The sleep that ends a cycle.
Sleep ==
    /\ pc = "sleep"
    /\ pc' = "visit"
    /\ UNCHANGED <<fn_vars, trace_vars, emit_vars, task_vars, devices, backoff_devices, device_ids, idx, request, retries_left,
                   reply_status, kp_vars, hist_vars>>

Next ==
    \/ \E id \in DeviceIds : RegisterDevice(id)
    \/ Run
    \/ Visit
    \/ PollBegin
    \/ \E port \in Ports : Attempt(port)
    \/ Deliver
    \/ Sleep

Spec == Init /\ [][Next]_vars

(***************************************************************************)
(* run() late in a long outage: the device has failed every poll since the *)
(* manager started, and its failures counter nears the end of its range.   *)
(***************************************************************************)
\* The manager asleep at the end of the cycle in which the device's n-th
\* poll in a row (n >= 5) timed out three times.
OutageState(n) ==
    LET timeout == Err(<<"Timeout">>)
        frame == BusFrame(<<KEYPAD_ADDRESS, 0, 14>>)
    IN  /\ devices = [id \in DeviceIds |-> [status |-> "Offline", failures |-> n]]
        /\ backoff_devices = [id \in DeviceIds |-> <<17, 4>>]
        /\ pc = "sleep"
        /\ device_ids = <<KEYPAD_ADDRESS>>
        /\ idx = 1
        /\ request = <<KEYPAD_ADDRESS, 0, 14>>
        /\ retries_left = 0
        /\ reply_status = timeout
        /\ InitKeypad
        /\ tried = <<"Err", "Err", "Err">>
        /\ wire = <<frame, frame, frame>>
        /\ calls = <<"next_message", "receive_update">>
        /\ lastCall = "receive_update"
        /\ sent = [command |-> 0, data |-> Some(<<14>>)]
        /\ delivered = Some(timeout)
        /\ skipped = [id \in DeviceIds |-> 0]
        /\ outcome = [id \in DeviceIds |-> Some(timeout)]
        /\ lastVisit = "marked"
        /\ round = 0
        /\ prev_skipped = 0
        /\ since_init = None
        /\ screens = 0
        /\ key_acks = 0
        /\ poll_flags = <<TRUE, TRUE>>
        /\ screen_bit = None
        /\ key_bit = None
        /\ acks = 0 /\ waited = 0
        /\ InitTasks
        /\ registered = <<KEYPAD_ADDRESS>>
        /\ bus_error = Some(<<"Timeout">>)
        /\ quiet = FALSE
        /\ InitLocks
        /\ InitFunctions

InitOutage == OutageState(U16 - 1 - MaxFailures)

\* The poll result whose state.failures + 1 panics: receive_update has been
\* called, and run() ends there.
Panic ==
    /\ pc = "deliver"
    /\ Overflows(devices[device_ids[idx]], reply_status)
    /\ LET u == receive_update(reply_status, state, last_state, tamper, updates)
       IN  /\ last_state' = u.last_state
           /\ tamper' = u.tamper
           /\ updates' = u.updates
           /\ events' = IF IsSome(u.event) THEN Append(events, Unwrap(u.event)) ELSE events
           /\ accepted' = IF IsSome(u.event) THEN Append(accepted, Unwrap(u.event))
                          ELSE accepted
           /\ NoteReply(reply_status)
    /\ outcome' = [outcome EXCEPT ![device_ids[idx]] = Some(reply_status)]
    /\ delivered' = Some(reply_status)
    /\ calls' = Append(calls, "receive_update")
    /\ lastCall' = "receive_update"
    /\ pc' = "panicked"
    /\ UNCHANGED <<fn_vars, trace_vars, handler, subscribers, tamper_seen, devices, backoff_devices, device_ids, idx, request, retries_left,
                   reply_status, state, tried, wire, sent, skipped, bo_vars>>

NextOutage ==
    \/ Visit
    \/ PollBegin
    \/ \E port \in Ports : Attempt(port)
    \/ Deliver
    \/ Panic
    \/ Sleep

SpecOutage == InitOutage /\ [][NextOutage]_vars

(***************************************************************************)
(* BackoffState driven directly, the way its unit tests and run() use it:  *)
(* a device is marked, then visited; it is marked again only after a visit *)
(* that returned None.                                                     *)
(***************************************************************************)
\* The most markings in a row without the entry being removed in between.
MaxRounds == 8

InitBackoff ==
    /\ InitManager /\ InitKeypad
    /\ tried = << >> /\ wire = << >> /\ calls = << >> /\ lastCall = "none"
    /\ sent = NoMessage /\ delivered = None
    /\ skipped = [id \in DeviceIds |-> 0]
    /\ outcome = [id \in DeviceIds |-> None]
    /\ lastVisit = "none" /\ round = 0 /\ prev_skipped = 0
    /\ since_init = None /\ screens = 0 /\ key_acks = 0
    /\ poll_flags = <<TRUE, TRUE>>
    /\ screen_bit = None /\ key_bit = None /\ acks = 0 /\ waited = 0
    /\ InitTasks
    /\ registered = <<KEYPAD_ADDRESS>>
    /\ bus_error = None
    /\ quiet = FALSE
    /\ InitLocks
    /\ InitFunctions

\* backoff.mark_device_backoff(id)
BoMark(id) ==
    /\ lastVisit \in {"none", "expired", "removed", "absent"}
    /\ lastVisit = "expired" => round < MaxRounds
    /\ backoff_devices' = mark_device_backoff(backoff_devices, id)
    /\ round' = IF lastVisit = "expired" THEN round + 1 ELSE 1
    /\ prev_skipped' = skipped[id]
    /\ skipped' = [skipped EXCEPT ![id] = 0]
    /\ lastVisit' = "marked"
    /\ UNCHANGED <<fn_vars, trace_vars, emit_vars, task_vars, devices, pc, device_ids, idx, request, retries_left, reply_status,
                   kp_vars, tried, wire, calls, lastCall, sent, delivered, outcome>>

\* backoff.visit_device(id)
BoVisit(id) ==
    /\ LET v == visit_device(backoff_devices, id)
       IN  /\ backoff_devices' = v.backoff
           /\ lastVisit' = VisitKind(backoff_devices, id, v.result)
           /\ skipped' = IF IsSome(v.result) THEN [skipped EXCEPT ![id] = @ + 1]
                         ELSE skipped
    /\ UNCHANGED <<fn_vars, trace_vars, emit_vars, task_vars, devices, pc, device_ids, idx, request, retries_left, reply_status,
                   kp_vars, tried, wire, calls, lastCall, sent, delivered, outcome,
                   round, prev_skipped>>

NextBackoff ==
    \/ \E id \in DeviceIds : BoMark(id)
    \/ \E id \in DeviceIds : BoVisit(id)

SpecBackoff == InitBackoff /\ [][NextBackoff]_vars

(***************************************************************************)
(* The (failures, status) bookkeeping of run() applied to a device entry   *)
(* the loop can have produced: failures is a u16, and a device that keeps  *)
(* failing takes it through all of 0..65535.                               *)
(***************************************************************************)
\* What poll_device can return to run(), with the reply it was given.
PollResults ==
    { Ok(SerialMessage(PANEL_ADDRESS, 254, None)),
      Ok(SerialMessage(PANEL_ADDRESS, 242, None)),
      Err(<<"Timeout">>),
      Err(<<"CrcFailed">>),
      Err(<<"DeserialisationError", "MissingCommand">>),
      Err(<<"BusError", "Timeout">>),
      Err(<<"BusError", "InvalidReplyRecipient", KEYPAD_ADDRESS>>),
      Err(<<"BusError", "IoError">>) }

\* The entries run() leaves after some polls: failures within MaxFailures of
\* either end of its range.
DeviceEntries ==
    {NewDeviceState, [status |-> "OnlineOK", failures |-> 0]}
        \cup [status : {"Offline", "OnlineCorruptReplies"},
              failures : (1..MaxFailures) \cup ((U16 - 1 - MaxFailures)..(U16 - 1))]

InitHealth ==
    /\ devices \in [DeviceIds -> DeviceEntries]
    /\ backoff_devices = << >>
    /\ pc = "deliver"
    /\ device_ids = << >> /\ idx = 1 /\ request = << >> /\ retries_left = 0
    /\ reply_status = Err(<<"Timeout">>)
    /\ InitKeypad
    /\ tried = << >> /\ wire = << >> /\ calls = << >> /\ lastCall = "none"
    /\ sent = NoMessage /\ delivered = None
    /\ skipped = [id \in DeviceIds |-> 0]
    /\ outcome = [id \in DeviceIds |-> None]
    /\ lastVisit = "none" /\ round = 0 /\ prev_skipped = 0
    /\ since_init = None /\ screens = 0 /\ key_acks = 0
    /\ poll_flags = <<TRUE, TRUE>>
    /\ screen_bit = None /\ key_bit = None /\ acks = 0 /\ waited = 0
    /\ InitTasks
    /\ registered = <<KEYPAD_ADDRESS>>
    /\ bus_error = None
    /\ quiet = FALSE
    /\ InitLocks
    /\ InitFunctions

\* The block of run() that follows poll_device, for the result given.
HealthPoll(id, result) ==
    /\ pc = "deliver"
    /\ LET st == Classify(devices[id], result)
       IN  /\ Followed(devices[id], st)
           /\ devices' = [devices EXCEPT ![id] = st]
           /\ backoff_devices' = IF st.status = "Offline"
                                 THEN mark_device_backoff(backoff_devices, id)
                                 ELSE backoff_devices
           /\ lastVisit' = IF st.status = "Offline" THEN "marked" ELSE lastVisit
    /\ outcome' = [outcome EXCEPT ![id] = Some(result)]
    /\ reply_status' = result
    /\ UNCHANGED <<fn_vars, trace_vars, emit_vars, task_vars, pc, device_ids, idx, request, retries_left, kp_vars, tried, wire,
                   calls, lastCall, sent, delivered, skipped, round, prev_skipped>>

\* The same block where state.failures + 1 panics: nothing is assigned.
HealthPanic(id, result) ==
    /\ pc = "deliver"
    /\ Overflows(devices[id], result)
    /\ pc' = "panicked"
    /\ outcome' = [outcome EXCEPT ![id] = Some(result)]
    /\ reply_status' = result
    /\ UNCHANGED <<fn_vars, trace_vars, emit_vars, task_vars, devices, backoff_devices, device_ids, idx, request, retries_left,
                   kp_vars, tried, wire, calls, lastCall, sent, delivered, skipped,
                   bo_vars>>

NextHealth ==
    \/ \E id \in DeviceIds, result \in PollResults : HealthPoll(id, result)
    \/ \E id \in DeviceIds, result \in PollResults : HealthPanic(id, result)

SpecHealth == InitHealth /\ [][NextHealth]_vars

(***************************************************************************)
(* The keypad driven through its two surfaces: the SerialDevice methods,   *)
(* called in turn as poll_device calls them, and mutate_state.             *)
(***************************************************************************)
\* The most events kept on the channel's history.
MaxEvents == 1

Reply(cmd, data) == Ok(SerialMessage(PANEL_ADDRESS, cmd, data))

\* What receive_update can be given.
Replies ==
    { Err(<<"Timeout">>),
      Reply(255, Some(<<8, 0, 100>>)),     \* Initialised
      Reply(255, Some(<<8, 0, 101>>)),     \* Initialised, another payload
      Reply(255, None),
      Reply(254, None),                    \* Ack
      Reply(244, Some(<<5>>)),             \* AckWithKey: key 5
      Reply(244, Some(<<75>>)),            \* AckWithKey: tamper and key A
      Reply(244, Some(<<127>>)),           \* AckWithKey: tamper only
      Reply(244, None),
      Reply(242, None),                    \* BadChecksum
      Reply(1, None) }                     \* no reply command

OtherDisplay ==
    KeypadDisplayState(<<65>>, << >>, Some(69), "Block")

\* The closures given to mutate_state: each sets one field of State.
Mutations ==
    [field : {"backlight"}, value : {"Off", "On"}]
        \cup [field : {"blink"}, value : BOOLEAN]
        \cup [field : {"screen"}, value : {DefaultDisplay, OtherDisplay}]

Apply(f, st) ==
    CASE f.field = "backlight"  -> [st EXCEPT !.backlight = f.value]
      [] f.field = "beeper"     -> [st EXCEPT !.beeper = f.value]
      [] f.field = "key_clicks" -> [st EXCEPT !.key_clicks = f.value]
      [] f.field = "blink"      -> [st EXCEPT !.blink = f.value]
      [] f.field = "screen"     -> [st EXCEPT !.screen = f.value]

\* mutate_state(f)
MutateState(f) ==
    /\ state' = Apply(f, state)
    /\ state' # state
    /\ waited' = 0
    /\ UNCHANGED <<fn_vars, trace_vars, since_init, screens, key_acks, poll_flags, screen_bit, key_bit, acks,
                   task_vars, mgr_vars, last_state, tamper, updates, events, hist_vars>>

\* next_message()
KpNextMessage ==
    /\ lastCall # "next_message"
    /\ ~UpdatesLocked
    /\ \E m \in {next_message(state, last_state, updates)} :
           /\ last_state' = m.last_state
           /\ updates' = m.updates
           /\ sent' = [command |-> m.command, data |-> m.data]
           /\ NoteMessage(m)
    /\ lastCall' = "next_message"
    /\ calls' = <<"next_message">>
    /\ delivered' = None
    /\ UNCHANGED <<fn_vars, trace_vars, task_vars, mgr_vars, state, tamper, events, tried, wire, skipped, outcome,
                   bo_vars>>

\* receive_update(msg), while the channel's history has room for the event.
Receive(msg, room) ==
    /\ lastCall = "next_message"
    /\ \E u \in {receive_update(msg, state, last_state, tamper, updates)} :
           /\ IsSome(u.event) => Len(events) < room
           /\ last_state' = u.last_state
           /\ tamper' = u.tamper
           /\ updates' = u.updates
           /\ events' = IF IsSome(u.event) THEN Append(events, Unwrap(u.event))
                        ELSE events
           /\ accepted' = IF IsSome(u.event) THEN Append(accepted, Unwrap(u.event))
                          ELSE accepted
           /\ NoteReply(msg)
    /\ lastCall' = "receive_update"
    /\ calls' = Append(calls, "receive_update")
    /\ delivered' = Some(msg)
    /\ UNCHANGED <<fn_vars, trace_vars, handler, subscribers, tamper_seen, mgr_vars, state, tried, wire, sent, skipped, outcome, bo_vars>>

\* receive_update(msg)
KpReceiveUpdate(msg) == Receive(msg, MaxEvents)

NextKeypad ==
    \/ KpNextMessage
    \/ \E msg \in Replies : KpReceiveUpdate(msg)
    \/ \E f \in Mutations : MutateState(f)

SpecKeypad == Init /\ [][NextKeypad]_vars

(***************************************************************************)
(* The same keypad over a longer run of key presses, with fewer kinds of   *)
(* reply and of mutation.                                                  *)
(***************************************************************************)
\* The most key presses reported.
MaxKeys == 2

KeyReplies ==
    { Err(<<"Timeout">>),
      Reply(255, Some(<<8, 0, 100>>)),     \* Initialised
      Reply(254, None),                    \* Ack
      Reply(244, Some(<<5>>)),             \* AckWithKey: key 5
      Reply(242, None) }                   \* BadChecksum

KeyMutations ==
    [field : {"backlight"}, value : {"Off", "On"}]
        \cup [field : {"screen"}, value : {DefaultDisplay, OtherDisplay}]

NextKeys ==
    \/ KpNextMessage
    \/ \E msg \in KeyReplies : Receive(msg, MaxKeys)
    \/ \E f \in KeyMutations : MutateState(f)

SpecKeys == Init /\ [][NextKeys]_vars

(***************************************************************************)
(* The same keypad up to and after the moment its surroundings go quiet:   *)
(* from then on no task calls mutate_state and the keypad answers every    *)
(* poll with a plain Ack.                                                  *)
(***************************************************************************)
QuietReplies ==
    { Err(<<"Timeout">>),
      Reply(255, Some(<<8, 0, 100>>)),     \* Initialised
      Reply(254, None),                    \* Ack
      Reply(244, Some(<<5>>)) }            \* AckWithKey: key 5

QuietMutations ==
    [field : {"backlight"}, value : {"Off", "On"}]
        \cup [field : {"blink"}, value : BOOLEAN]
        \cup [field : {"screen"}, value : {DefaultDisplay, OtherDisplay}]

\* The last mutate_state and the last reply other than Ack have happened.
GoQuiet ==
    /\ ~quiet
    /\ quiet' = TRUE
    /\ UNCHANGED <<fn_vars, registered, bus_error, lock_vars, mgr_vars, kp_vars, hist_vars,
                   emit_vars, task_vars>>

NextQuiet ==
    \/ KpNextMessage
    \/ \E msg \in QuietReplies : (quiet => msg = Reply(254, None)) /\ Receive(msg, MaxEvents)
    \/ \E f \in QuietMutations : ~quiet /\ MutateState(f)
    \/ GoQuiet

SpecQuiet == Init /\ [][NextQuiet]_vars

\* The calls the manager task makes in one poll, told by the call they leave
\* behind.  next_message blocks on nothing but the updates mutex and returns
\* a frame from every state, so a step Polled is possible exactly where
\* KpNextMessage is; receive_update follows every next_message.
Polled == lastCall # "next_message" /\ ~UpdatesLocked /\ lastCall' = "next_message"
Answered == lastCall = "next_message" /\ lastCall' = "receive_update"

\* The manager task keeps polling: poll_device calls next_message and then
\* receive_update, whatever the bus did, in every cycle of run().
FairQuiet == SpecQuiet /\ WF_lastCall(Polled) /\ WF_lastCall(Answered)

(***************************************************************************)
(* The keypad between its tasks, at the granularity of its locks: the      *)
(* manager task calls next_message and receive_update in turn, UI tasks    *)
(* call mutate_state, is_tamper and subscribe_events at any time.          *)
(* receive_update holds last_state, tamper and updates throughout, so the  *)
(* only point inside it another task can see is between its write of       *)
(* send_key_ack and its send on the channel.                               *)
(***************************************************************************)
\* The most receivers handed out.
MaxSubscribers == 1

TaskReplies ==
    { Err(<<"Timeout">>),
      Reply(255, Some(<<8, 0, 100>>)),
      Reply(254, None),
      Reply(244, Some(<<5>>)),
      Reply(244, Some(<<75>>)) }

TaskMutations == [field : {"backlight"}, value : {"Off", "On"}]

\* receive_update(msg) up to its return or, when it reports a new key, up to
\* the assignment of send_key_ack.
TkReceive(msg) ==
    /\ lastCall = "next_message"
    /\ ~UpdatesLocked
    /\ \E u \in {receive_update(msg, state, last_state, tamper, updates)} :
           /\ IsSome(u.event) => Len(accepted) < MaxEvents
           /\ last_state' = u.last_state
           /\ tamper' = u.tamper
           /\ updates' = u.updates
           /\ handler' = u.event
           /\ accepted' = IF IsSome(u.event) THEN Append(accepted, Unwrap(u.event))
                          ELSE accepted
           /\ NoteReply(msg)
    /\ lastCall' = "receive_update"
    /\ calls' = Append(calls, "receive_update")
    /\ delivered' = Some(msg)
    /\ UNCHANGED <<fn_vars, trace_vars, mgr_vars, state, events, tried, wire, sent, skipped, outcome,
                   bo_vars, subscribers, tamper_seen>>

\* The rest of receive_update: ev_ch.send, and the locks are released.
TkPublish ==
    /\ IsSome(handler)
    /\ events' = Append(events, Unwrap(handler))
    /\ handler' = None
    /\ UNCHANGED <<fn_vars, trace_vars, mgr_vars, state, last_state, tamper, updates, hist_vars, emit_vars,
                   accepted, subscribers, tamper_seen>>

\* is_tamper()
IsTamper ==
    /\ ~TamperLocked
    /\ tamper_seen' = Some(tamper)
    /\ UNCHANGED <<fn_vars, trace_vars, mgr_vars, kp_vars, hist_vars, emit_vars, accepted, handler,
                   subscribers>>

\* subscribe_events()
SubscribeEvents ==
    /\ subscribers < MaxSubscribers
    /\ subscribers' = subscribers + 1
    /\ UNCHANGED <<fn_vars, trace_vars, mgr_vars, kp_vars, hist_vars, emit_vars, accepted, handler,
                   tamper_seen>>

NextTasks ==
    \/ KpNextMessage
    \/ \E msg \in TaskReplies : TkReceive(msg)
    \/ TkPublish
    \/ \E f \in TaskMutations : MutateState(f)
    \/ IsTamper
    \/ SubscribeEvents

SpecTasks == Init /\ [][NextTasks]_vars

(***************************************************************************)
(* The keypad lock by lock.  Every acquisition of a lock is a step, taken  *)
(* when the lock is free for it; a guard bound by let is held until the    *)
(* function returns, a temporary guard until the end of its statement.     *)
(* The manager task calls next_message and receive_update in turn; each    *)
(* UI task calls mutate_state (with a closure that assigns a field of      *)
(* State), is_tamper or subscribe_events.                                  *)
(***************************************************************************)
LockReplies ==
    { Err(<<"Timeout">>),
      Reply(255, Some(<<8, 0, 100>>)),
      Reply(254, None) }

\* The lock a task at pos is about to take, and how: read or write for an
\* RwLock, lock for a Mutex.
Wanted(pos) ==
    CASE pos = "next_message"              -> Some(<<"last_state", "read">>)
      [] pos = "next_command:state"        -> Some(<<"state", "read">>)
      [] pos = "next_command:last_state"   -> Some(<<"last_state", "write">>)
      [] pos = "next_command:updates"      -> Some(<<"updates", "lock">>)
      [] pos = "receive_update:event_ch"   -> Some(<<"event_ch", "lock">>)
      [] pos = "receive_update:last_state" -> Some(<<"last_state", "write">>)
      [] pos = "receive_update:tamper"     -> Some(<<"tamper", "lock">>)
      [] pos = "receive_update:updates"    -> Some(<<"updates", "lock">>)
      [] pos = "receive_update:state"      -> Some(<<"state", "read">>)
      [] pos = "mutate_state:state"        -> Some(<<"state", "write">>)
      [] pos = "is_tamper:tamper"          -> Some(<<"tamper", "lock">>)
      [] pos = "subscribe_events:event_ch" -> Some(<<"event_ch", "lock">>)
      [] OTHER                             -> None

\* The guards on l that keep it from being taken in the given mode: the
\* writer for a read, every guard otherwise.
Holders(h, l, mode) == IF mode = "read" THEN {x \in h[l] : x[2] = "write"} ELSE h[l]

\* The lock a task at pos is about to take can be taken.
Free(h, pos) == Holders(h, Unwrap(Wanted(pos))[1], Unwrap(Wanted(pos))[2]) = {}

\* Task t takes the lock a task at pos is about to take.
Acquire(h, t, pos) ==
    [h EXCEPT ![Unwrap(Wanted(pos))[1]] = @ \cup {<<t, Unwrap(Wanted(pos))[2]>>}]

\* Task t returns: its guards are dropped.
ReleaseAll(h, t) == [l \in Locks |-> {x \in h[l] : x[1] # t}]

\* Mutant: the guard taken in the condition of next_message's if lives on
\* into its branches.
AfterCondition_Kept(h, t) == h

\* The condition of next_message's if has been evaluated: the temporary
\* guard on last_state is dropped before either branch is entered.
AfterCondition(h, t) == [h EXCEPT !["last_state"] = @ \ {<<t, "read">>}]

\* What no step of this section changes.
LockFrame == UNCHANGED <<fn_vars, registered, bus_error, quiet, mgr_vars, hist_vars, emit_vars>>

\* Task t, at from, takes its lock and goes on to the position to.
Take(t, from, to) ==
    /\ task_at[t].pos = from
    /\ Free(held, from)
    /\ held' = Acquire(held, t, from)
    /\ task_at' = [task_at EXCEPT ![t].pos = to]
    /\ LockFrame
    /\ UNCHANGED <<kp_vars, task_vars>>

\* next_message: self.last_state.read().is_none(), and the branch taken.
LkCondition ==
    /\ task_at["manager"].pos = "next_message"
    /\ Free(held, "next_message")
    /\ \E h \in {AfterCondition(Acquire(held, "manager", "next_message"), "manager")} :
           IF IsNone(last_state)
           THEN /\ held' = ReleaseAll(h, "manager")
                /\ task_at' = [task_at EXCEPT !["manager"] = At("poll", None)]
           ELSE /\ held' = h
                /\ task_at' = [task_at EXCEPT !["manager"] = At("next_command:state", None)]
    /\ LockFrame
    /\ UNCHANGED <<kp_vars, task_vars>>

\* next_command: let current_state = self.state.read()
LkCurrentState == Take("manager", "next_command:state", "next_command:last_state")

\* next_command: let mut last_state_lock = self.last_state.write()
LkLastStateLock == Take("manager", "next_command:last_state", "next_command:updates")

\* next_command: let mut updates = self.updates.lock(), and the rest of the
\* function up to its return.
LkNextCommand ==
    /\ task_at["manager"].pos = "next_command:updates"
    /\ Free(held, "next_command:updates")
    /\ \E m \in {next_message(state, last_state, updates)} :
           /\ last_state' = m.last_state
           /\ updates' = m.updates
    /\ held' = ReleaseAll(held, "manager")
    /\ task_at' = [task_at EXCEPT !["manager"] = At("poll", None)]
    /\ LockFrame
    /\ UNCHANGED <<state, tamper, events, task_vars>>

\* poll_device has its reply_status and calls receive_update with it.
LkReceiveCall(msg) ==
    /\ task_at["manager"].pos = "poll"
    /\ task_at' = [task_at EXCEPT !["manager"] = At("receive_update:event_ch", Some(msg))]
    /\ LockFrame
    /\ UNCHANGED <<held, kp_vars, task_vars>>

\* receive_update: let ev_ch = self.event_ch.lock().unwrap().clone()
LkEvCh ==
    /\ task_at["manager"].pos = "receive_update:event_ch"
    /\ Free(held, "receive_update:event_ch")
    /\ task_at' = [task_at EXCEPT !["manager"].pos = "receive_update:last_state"]
    /\ LockFrame
    /\ UNCHANGED <<held, kp_vars, task_vars>>

\* receive_update: let mut last_state = self.last_state.write()
LkLastState == Take("manager", "receive_update:last_state", "receive_update:tamper")

\* receive_update: let mut tamper = self.tamper.lock()
LkTamper == Take("manager", "receive_update:tamper", "receive_update:updates")

\* receive_update reaches *last_state = Some(self.state.read().unwrap().clone()).
ClonesState(msg, last_opt) ==
    /\ msg.ok
    /\ ReplyCommand(Unwrap(msg.msg).command) = "Initialised"
    /\ IsNone(last_opt)
    /\ validate_additional_data(Unwrap(msg.msg), 3)
    /\ Unwrap(Unwrap(msg.msg).additional_data) = <<8, 0, 100>>

\* The match of receive_update, and its return.
LkMatch(msg) ==
    /\ \E u \in {receive_update(msg, state, last_state, tamper, updates)} :
           /\ last_state' = u.last_state
           /\ tamper' = u.tamper
           /\ updates' = u.updates
           /\ events' = IF IsSome(u.event) THEN Append(events, Unwrap(u.event)) ELSE events
           /\ accepted' = IF IsSome(u.event) THEN Append(accepted, Unwrap(u.event))
                          ELSE accepted
    /\ held' = ReleaseAll(held, "manager")
    /\ task_at' = [task_at EXCEPT !["manager"] = At("next_message", None)]
    /\ LockFrame
    /\ UNCHANGED <<state, handler, subscribers, tamper_seen>>

\* receive_update: let mut updates = self.updates.lock(), and the match up
\* to the point where it reads state, or else up to the return.
LkUpdates ==
    /\ task_at["manager"].pos = "receive_update:updates"
    /\ Free(held, "receive_update:updates")
    /\ IF ClonesState(Unwrap(task_at["manager"].arg), last_state)
       THEN /\ held' = Acquire(held, "manager", "receive_update:updates")
            /\ task_at' = [task_at EXCEPT !["manager"].pos = "receive_update:state"]
            /\ LockFrame
            /\ UNCHANGED <<kp_vars, task_vars>>
       ELSE LkMatch(Unwrap(task_at["manager"].arg))

\* receive_update: self.state.read() in the Initialised arm, and the rest.
LkCloneState ==
    /\ task_at["manager"].pos = "receive_update:state"
    /\ Free(held, "receive_update:state")
    /\ LkMatch(Unwrap(task_at["manager"].arg))

\* A UI task calls a function of the keypad.
LkCall(t, pos, arg) ==
    /\ task_at[t].pos = "idle"
    /\ task_at' = [task_at EXCEPT ![t] = At(pos, arg)]
    /\ LockFrame
    /\ UNCHANGED <<held, kp_vars, task_vars>>

\* The receivers handed out, and those about to be.
Subscribing == subscribers + Cardinality({t \in UiTasks : task_at[t].pos = "subscribe_events:event_ch"})

\* mutate_state: let mut state = self.state.write()
LkStateWrite(t) == Take(t, "mutate_state:state", "mutate_state:f")

\* mutate_state: f(&mut state), and the return.
LkClosure(t) ==
    /\ task_at[t].pos = "mutate_state:f"
    /\ state' = Apply(Unwrap(task_at[t].arg), state)
    /\ held' = ReleaseAll(held, t)
    /\ task_at' = [task_at EXCEPT ![t] = At("idle", None)]
    /\ LockFrame
    /\ UNCHANGED <<last_state, tamper, updates, events, task_vars>>

\* is_tamper: *self.tamper.lock().unwrap()
LkIsTamper(t) ==
    /\ task_at[t].pos = "is_tamper:tamper"
    /\ Free(held, "is_tamper:tamper")
    /\ tamper_seen' = Some(tamper)
    /\ task_at' = [task_at EXCEPT ![t] = At("idle", None)]
    /\ LockFrame
    /\ UNCHANGED <<held, kp_vars, accepted, handler, subscribers>>

\* subscribe_events: self.event_ch.lock().unwrap().subscribe()
LkSubscribe(t) ==
    /\ task_at[t].pos = "subscribe_events:event_ch"
    /\ Free(held, "subscribe_events:event_ch")
    /\ subscribers' = subscribers + 1
    /\ task_at' = [task_at EXCEPT ![t] = At("idle", None)]
    /\ LockFrame
    /\ UNCHANGED <<held, kp_vars, accepted, handler, tamper_seen>>

NextLocks ==
    \/ LkCondition
    \/ LkCurrentState
    \/ LkLastStateLock
    \/ LkNextCommand
    \/ \E msg \in LockReplies : LkReceiveCall(msg)
    \/ LkEvCh
    \/ LkLastState
    \/ LkTamper
    \/ LkUpdates
    \/ LkCloneState
    \/ \E t \in UiTasks, f \in TaskMutations : LkCall(t, "mutate_state:state", Some(f))
    \/ \E t \in UiTasks : LkCall(t, "is_tamper:tamper", None)
    \/ \E t \in UiTasks :
           Subscribing < MaxSubscribers /\ LkCall(t, "subscribe_events:event_ch", None)
    \/ \E t \in UiTasks : LkStateWrite(t)
    \/ \E t \in UiTasks : LkClosure(t)
    \/ \E t \in UiTasks : LkIsTamper(t)
    \/ \E t \in UiTasks : LkSubscribe(t)

SpecLocks == Init /\ [][NextLocks]_vars

(***************************************************************************)
(* crc.rs on its own: a byte sequence is drawn, and galaxy_crc,            *)
(* galaxy_crc_vectored and check_galaxy_crc are called on it.              *)
(***************************************************************************)
MaxCrcLen == 3

\* The byte values drawn: the three of the frame 10 00 0E, and 0xFF.
CrcBytes == {0, 14, 16, 255}

RECURSIVE SeqsUpTo(_, _)
\* The sequences over S of length 1..n.
SeqsUpTo(S, n) ==
    IF n = 0 THEN {}
    ELSE [1..n -> S] \cup SeqsUpTo(S, n - 1)

\* The shortest run of 0xFF whose sum leaves the range of the u16 accumulator.
LongRun == [k \in 1..((U16 - 1 - CRC_SEED) \div 255 + 1) |-> 255]

Builds == {"debug", "release"}

\* The places a sequence is cut at to give it as slices: anywhere when it
\* is short, nowhere or in the middle when it is long.
Cuts(s) ==
    IF Len(s) <= MaxCrcLen THEN SUBSET (1..(Len(s) - 1))
    ELSE {{}, {Len(s) \div 2}}

\* s as slices, cut after every position of cuts.
Slices(s, cuts) ==
    LET ends == cuts \cup {Len(s)}
        EndOf(k) == CHOOSE e \in ends : Cardinality({c \in ends : c <= e}) = k
        StartOf(k) == IF k = 1 THEN 1 ELSE EndOf(k - 1) + 1
    IN  [k \in 1..Cardinality(ends) |-> SubSeq(s, StartOf(k), EndOf(k))]

InitCrc ==
    /\ InitManager /\ InitKeypad /\ InitHistory /\ InitTasks /\ InitTrace
    /\ input \in {Some([s |-> s]) : s \in SeqsUpTo(CrcBytes, MaxCrcLen) \cup {LongRun}}
    /\ output = None

\* (s ++ [galaxy_crc(s)]).check_galaxy_crc(), for a short s
CheckSealed ==
    /\ IsSome(input) /\ IsNone(output)
    /\ Len(Unwrap(input).s) <= MaxCrcLen
    /\ \E frame \in {Append(Unwrap(input).s, galaxy_crc(Unwrap(input).s))} :
           output' = Some([op |-> "check_galaxy_crc", replaced |-> None,
                           frame |-> frame, ok |-> check_galaxy_crc(frame)])
    /\ UNCHANGED <<input, mgr_vars, kp_vars, hist_vars, emit_vars, task_vars, trace_vars>>

\* check_galaxy_crc() of s ++ [galaxy_crc(s)] with one byte replaced by
\* another value, for a short s
CheckReplaced ==
    /\ IsSome(input) /\ IsNone(output)
    /\ Len(Unwrap(input).s) <= MaxCrcLen
    /\ \E sealed \in {Append(Unwrap(input).s, galaxy_crc(Unwrap(input).s))} :
           \E i \in 1..Len(sealed), v \in 0..255 :
               /\ v # sealed[i]
               /\ \E frame \in {[sealed EXCEPT ![i] = v]} :
                      output' = Some([op |-> "check_galaxy_crc", replaced |-> Some(i),
                                      frame |-> frame, ok |-> check_galaxy_crc(frame)])
    /\ UNCHANGED <<input, mgr_vars, kp_vars, hist_vars, emit_vars, task_vars, trace_vars>>

\* galaxy_crc_vectored(slices) and galaxy_crc(s) for the same bytes, in
\* the same build
Vectored ==
    /\ IsSome(input) /\ IsNone(output)
    /\ \E slices \in {Slices(Unwrap(input).s, cuts) : cuts \in Cuts(Unwrap(input).s)},
          build \in Builds :
           output' = Some([op |-> "galaxy_crc_vectored", build |-> build,
                           slices |-> slices,
                           vectored |-> crc_outcome(slices, build),
                           whole |-> crc_outcome(<<Unwrap(input).s>>, build)])
    /\ UNCHANGED <<input, mgr_vars, kp_vars, hist_vars, emit_vars, task_vars, trace_vars>>

NextCrc ==
    \/ CheckSealed
    \/ CheckReplaced
    \/ Vectored

SpecCrc == InitCrc /\ [][NextCrc]_vars

(***************************************************************************)
(* message.rs on its own: a message is drawn and serialised, and           *)
(* deserialise is called on the frame, on its first two bytes, and on the  *)
(* frame with another last byte.                                           *)
(***************************************************************************)
MaxDataLen == 2

\* The longest run of 0xFF that fits the u16 accumulator when it comes
\* after a header of FF FF that was folded, and does not when it was not.
LongData == SubSeq(LongRun, 3, Len(LongRun))

Messages ==
    {SerialMessage(addr, cmd, data) :
        addr \in {KEYPAD_ADDRESS, PANEL_ADDRESS}, cmd \in {0, 32, 255},
        data \in {None} \cup {Some(d) : d \in {<< >>} \cup SeqsUpTo({0, 48, 64, 255}, MaxDataLen)}}
      \cup {SerialMessage(255, 255, Some(LongData))}

InitMessage ==
    /\ InitManager /\ InitKeypad /\ InitHistory /\ InitTasks /\ InitTrace
    /\ input \in {Some([m |-> m]) : m \in Messages}
    /\ output = None

\* SerialMessage::deserialise(&m.serialise())
RoundTrip ==
    /\ IsSome(input) /\ IsNone(output)
    /\ \E build \in Builds :
           output' = Some([op |-> "round_trip", build |-> build,
                           result |-> round_trip_outcome(Unwrap(input).m, build)])
    /\ UNCHANGED <<input, mgr_vars, kp_vars, hist_vars, emit_vars, task_vars, trace_vars>>

\* SerialMessage::deserialise of the first two bytes of the frame
DeserialiseHeader ==
    /\ IsSome(input) /\ IsNone(output)
    /\ output' = Some([op |-> "two_bytes", build |-> "release",
                       result |-> Some(deserialise(
                           SubSeq(serialise_without_crc(Unwrap(input).m), 1, 2)))])
    /\ UNCHANGED <<input, mgr_vars, kp_vars, hist_vars, emit_vars, task_vars, trace_vars>>

\* SerialMessage::deserialise of the frame with its last byte replaced by v,
\* for a short message
DeserialiseWrongCrc ==
    /\ IsSome(input) /\ IsNone(output)
    /\ Len(serialise_without_crc(Unwrap(input).m)) <= 2 + MaxDataLen
    /\ \E frame \in {serialise(Unwrap(input).m)} :
           \E v \in 0..255 :
               /\ v # frame[Len(frame)]
               /\ output' = Some([op |-> "wrong_crc", build |-> "release",
                                  result |-> Some(deserialise(
                                      [frame EXCEPT ![Len(frame)] = v]))])
    /\ UNCHANGED <<input, mgr_vars, kp_vars, hist_vars, emit_vars, task_vars, trace_vars>>

NextMessage ==
    \/ RoundTrip
    \/ DeserialiseHeader
    \/ DeserialiseWrongCrc

SpecMessage == InitMessage /\ [][NextMessage]_vars

(***************************************************************************)
(* run() with two devices registered: what poll_device does on the bus and *)
(* in the device is left out, its result is drawn.                         *)
(***************************************************************************)
\* Two addresses on the bus.
BusIds == {KEYPAD_ADDRESS, 2 * KEYPAD_ADDRESS}

\* A device is followed while it has failed at most this many polls in a row.
MaxStreak == 2

\* What poll_device can return to run().
RunResults ==
    {Ok(SerialMessage(PANEL_ADDRESS, 254, None)), Err(<<"Timeout">>), Err(<<"CrcFailed">>)}

\* poll_device returns result, and the block of run() that follows it.
RunPoll(result) ==
    /\ pc = "poll"
    /\ LET id == device_ids[idx]
           st == Classify(devices[id], result)
       IN  /\ st.failures <= MaxStreak
           /\ devices' = [devices EXCEPT ![id] = st]
           /\ backoff_devices' = IF st.status = "Offline"
                                 THEN mark_device_backoff(backoff_devices, id)
                                 ELSE backoff_devices
           /\ lastVisit' = IF st.status = "Offline" THEN "marked" ELSE lastVisit
           /\ outcome' = [outcome EXCEPT ![id] = Some(result)]
           /\ skipped' = [skipped EXCEPT ![id] = 0]
    /\ reply_status' = result
    /\ calls' = <<"next_message", "receive_update">>
    /\ Advance
    /\ UNCHANGED <<fn_vars, trace_vars, emit_vars, task_vars, device_ids, request, retries_left,
                   kp_vars, tried, wire, lastCall, sent, delivered, round, prev_skipped>>

NextOrder ==
    \/ \E id \in BusIds : RegisterDevice(id)
    \/ Run
    \/ Visit
    \/ \E result \in RunResults : RunPoll(result)
    \/ Sleep

SpecOrder == Init /\ [][NextOrder]_vars

(***************************************************************************)
(* receive_update on its own: a keypad in one of the states drawn is given *)
(* one of the replies drawn.                                               *)
(***************************************************************************)
\* The longest payload of a reply.
MaxPayload == 3

\* Payload bytes: those of a successful initialisation, key 5, tamper only.
PayloadBytes == {0, 5, 8, 100, 127}

\* Initialised, Ack, AckWithKey, BadChecksum, and a byte that is no reply
\* command.
ReplyCommandBytes == {255, 254, 244, 242, 1}

ReceivedReplies ==
    {Reply(c, d) : c \in ReplyCommandBytes,
                   d \in {None} \cup {Some(p) : p \in {<< >>} \cup SeqsUpTo(PayloadBytes, MaxPayload)}}

\* The keypad as receive_update can find it.
KeypadStates ==
    [last_state : {None, Some(DefaultState), Some([DefaultState EXCEPT !.backlight = "On"])},
     tamper : BOOLEAN,
     updates : {[DefaultUpdates EXCEPT !.send_key_ack = a, !.send_screen = b] :
                    a \in BOOLEAN, b \in BOOLEAN}]

InitReceive ==
    /\ InitManager /\ InitKeypad /\ InitHistory /\ InitTasks /\ InitTrace
    /\ input \in {Some([msg |-> m, keypad |-> k]) : m \in ReceivedReplies, k \in KeypadStates}
    /\ output = None

\* keypad.receive_update(msg)
ReceiveUpdate ==
    /\ IsSome(input) /\ IsNone(output)
    /\ \E k \in {Unwrap(input).keypad} :
           output' = Some([op |-> "receive_update",
                           result |-> receive_update(Unwrap(input).msg, DefaultState,
                                                     k.last_state, k.tamper, k.updates)])
    /\ UNCHANGED <<input, mgr_vars, kp_vars, hist_vars, emit_vars, task_vars, trace_vars>>

NextReceive == ReceiveUpdate

SpecReceive == InitReceive /\ [][NextReceive]_vars

(***************************************************************************)
(* bus.rs on its own: send_receive_buffered is called with a request, and  *)
(* the port behaves in one of the ways drawn.                              *)
(***************************************************************************)
MaxReadLen == 3

\* The bytes a read returns: the keypad's and the panel's address, Ack, and
\* the checksum of 11 FE.
ReadBytes == {KEYPAD_ADDRESS, PANEL_ADDRESS, 254, 186}

BusPorts ==
    {Port(FALSE, "data", << >>), Port(TRUE, "timeout", << >>), Port(TRUE, "ioerr", << >>)}
        \cup {Port(TRUE, "data", b) : b \in {<< >>} \cup SeqsUpTo(ReadBytes, MaxReadLen)}

\* Initialise and Ping for the keypad.
Requests == {<<KEYPAD_ADDRESS, 0, 14>>, <<KEYPAD_ADDRESS, 6>>}

InitBus ==
    /\ InitManager /\ InitKeypad /\ InitHistory /\ InitTasks /\ InitTrace
    /\ input \in {Some([request |-> r, port |-> p]) : r \in Requests, p \in BusPorts}
    /\ output = None

\* bus.send_receive_buffered(request, reply)
SendReceive ==
    /\ IsSome(input) /\ IsNone(output)
    /\ output' = Some([op |-> "send_receive_buffered",
                       result |-> send_receive_buffered(Unwrap(input).request,
                                                        Unwrap(input).port)])
    /\ UNCHANGED <<input, mgr_vars, kp_vars, hist_vars, emit_vars, task_vars, trace_vars>>

NextBus == SendReceive

SpecBus == InitBus /\ [][NextBus]_vars

(***************************************************************************)
(* mod display on its own: a screen to show (to) and the screen the keypad *)
(* shows (from) are drawn, and one of partial_update, strategic_update and *)
(* next_command is called on them.                                         *)
(***************************************************************************)
MaxStride == 3

\* The lengths of the lines drawn: empty, short, and the width of the display.
Widths == {0, 3, LINE_WIDTH}

\* A line of len characters: 'B' in every stride-th column from the first,
\* 'A' in the others; no 'B' at all for stride 0.
StripedLine(len, stride) ==
    [j \in 1..len |-> IF stride > 0 /\ (j - 1) % stride = 0 THEN 66 ELSE 65]

ToLines == {StripedLine(len, stride) : len \in Widths, stride \in 0..MaxStride}
FromLines == {StripedLine(len, stride) : len \in Widths, stride \in 0..1}

CursorStyles == {"None", "Block", "Underline"}

\* cursor_position: floating, column 4 and column 16 of the second line.
CursorPositions == {None, Some(68), Some(80)}

FromScreens ==
    {KeypadDisplayState(l0, l1, None, style) :
        l0 \in FromLines, l1 \in FromLines, style \in {"None", "Block"}}

ToScreens ==
    UNION {{KeypadDisplayState(l0, l1, pos, style) :
                l0 \in ToLines, l1 \in ToLines} :
            pos \in CursorPositions, style \in CursorStyles}

InitDisplay ==
    /\ InitManager /\ InitKeypad /\ InitHistory /\ InitTasks /\ InitTrace
    /\ input \in {Some([from |-> f, to |-> t]) : f \in FromScreens, t \in ToScreens}
    /\ output = None

\* What a call on the screens returned: the function called, send_screen
\* (next_command only), the command (next_command only), the bytes, and the
\* final cursor position reported (partial_update only).
Rendered(op, forced, command, data, cursor) ==
    [op |-> op, send_screen |-> forced, command |-> command, data |-> data,
     cursor |-> cursor]

\* to.partial_update(&from)
PartialUpdate ==
    /\ IsSome(input) /\ IsNone(output)
    /\ \E u \in {partial_update(Unwrap(input).to, Unwrap(input).from)} :
           output' = Some(Rendered("partial_update", FALSE, "none", u.data, u.cursor))
    /\ UNCHANGED <<input, mgr_vars, kp_vars, hist_vars, emit_vars, task_vars, trace_vars>>

\* to.strategic_update(&from)
StrategicUpdate ==
    /\ IsSome(input) /\ IsNone(output)
    /\ \E d \in {strategic_update(Unwrap(input).to, Unwrap(input).from)} :
           output' = Some(Rendered("strategic_update", FALSE, "none", d, None))
    /\ UNCHANGED <<input, mgr_vars, kp_vars, hist_vars, emit_vars, task_vars, trace_vars>>

\* next_command() of a keypad whose state differs from last_state in the
\* screen at most, with send_screen as given and nothing else pending.
NextCommand(send_screen) ==
    /\ IsSome(input) /\ IsNone(output)
    /\ \E c \in {next_command([DefaultState EXCEPT !.screen = Unwrap(input).to],
                               [DefaultState EXCEPT !.screen = Unwrap(input).from],
                               [DefaultUpdates EXCEPT !.send_screen = send_screen])} :
           output' = Some(Rendered("next_command", send_screen, c.command,
                                   IF IsSome(c.data) THEN Unwrap(c.data) ELSE << >>,
                                   None))
    /\ UNCHANGED <<input, mgr_vars, kp_vars, hist_vars, emit_vars, task_vars, trace_vars>>

NextDisplay ==
    \/ PartialUpdate
    \/ StrategicUpdate
    \/ \E send_screen \in BOOLEAN : NextCommand(send_screen)

SpecDisplay == InitDisplay /\ [][NextDisplay]_vars

(***************************************************************************)
(* full_update on its own, and strategic_update from a display that was    *)
(* blank or showed the default text.                                       *)
(***************************************************************************)
BlankDisplay == KeypadDisplayState(<< >>, << >>, None, "None")

InitFull ==
    /\ InitManager /\ InitKeypad /\ InitHistory /\ InitTasks /\ InitTrace
    /\ input \in {Some([from |-> f, to |-> t]) :
                      f \in {BlankDisplay, DefaultDisplay}, t \in ToScreens}
    /\ output = None

\* to.full_update()
FullUpdate ==
    /\ IsSome(input) /\ IsNone(output)
    /\ \E u \in {full_update(Unwrap(input).to)} :
           output' = Some(Rendered("full_update", FALSE, "none", u.data, u.cursor))
    /\ UNCHANGED <<input, mgr_vars, kp_vars, hist_vars, emit_vars, task_vars, trace_vars>>

NextFull ==
    \/ FullUpdate
    \/ StrategicUpdate

SpecFull == InitFull /\ [][NextFull]_vars

(***************************************************************************)
(* The manager task under the scheduling the runtime gives it: run() is    *)
(* one task that is always resumed, every await in it is a sleep or an     *)
(* I/O bounded by a timeout.                                               *)
(***************************************************************************)
FairSpec ==
    /\ Spec
    /\ WF_vars(\E id \in DeviceIds : RegisterDevice(id))
    /\ WF_vars(Run)
    /\ WF_vars(Visit)
    /\ WF_vars(PollBegin)
    /\ WF_vars(\E port \in Ports : Attempt(port))
    /\ WF_vars(Deliver)
    /\ WF_vars(Sleep)

FairOutage ==
    /\ SpecOutage
    /\ WF_vars(Visit)
    /\ WF_vars(PollBegin)
    /\ WF_vars(\E port \in Ports : Attempt(port))
    /\ WF_vars(Deliver \/ Panic)
    /\ WF_vars(Sleep)

(***************************************************************************)
(* Properties of poll_device                                               *)
(***************************************************************************)
DeliveredBadChecksum ==
    /\ IsSome(delivered)
    /\ Unwrap(delivered).ok
    /\ Unwrap(Unwrap(delivered).msg).command = LAST_MESSAGE_BAD_CHECKSUM_REPLY_COMMAND

\* C1: a valid reply with command 0xF2 makes the manager send the frame
\* again, up to 3 bus attempts in the poll; receive_update is given
\* Ok(0xF2) only after the third 0xF2 reply in a row.
C1_BadChecksumRetried ==
    DeliveredBadChecksum =>
        /\ attempts = RETRIES
        /\ tried[RETRIES] = "BadChecksum"
        /\ Len(wire) = RETRIES

\* C2: a poll makes between 1 and 3 bus attempts.  If every transaction
\* fails there are exactly 3 and the error of the last one is given to
\* receive_update and returned to run(); a valid reply other than 0xF2 is
\* the last attempt of its poll and is the reply delivered.
C2_AttemptsPerPoll ==
    /\ attempts <= 3
    /\ \A i \in 1..attempts : tried[i] = "Ok" => i = attempts
    /\ IsSome(delivered) =>
         /\ attempts >= 1
         /\ delivered = Some(reply_status)
         /\ ResultKind(Unwrap(delivered)) = tried[attempts]
         /\ \E id \in DOMAIN outcome : outcome[id] = delivered
         /\ (\A i \in 1..attempts : tried[i] = "Err") => attempts = 3

\* C2 witness: a poll whose three transactions all failed has been delivered.
C2_Witness ==
    /\ IsSome(delivered)
    /\ tried = <<"Err", "Err", "Err">>
    /\ ~Unwrap(delivered).ok

\* The frame a poll must put on the wire: the polled address, then what
\* next_message returned, then the CRC of those bytes.
ExpectedFrame(id, m) ==
    LET body == <<id, m.command>> \o (IF IsSome(m.data) THEN Unwrap(m.data) ELSE << >>)
    IN  Append(body, galaxy_crc(body))

C3_PollShape ==
    /\ calls \in { << >>, <<"next_message">>, <<"next_message", "receive_update">> }
    /\ calls = << >> => tried = << >> /\ wire = << >>
    /\ calls = <<"next_message">> => pc \in {"attempt", "deliver"} /\ IsNone(delivered)
    /\ calls = <<"next_message", "receive_update">> =>
           /\ pc \in {"visit", "poll", "sleep"}
           /\ attempts \in 1..3
           /\ IsSome(delivered)
    /\ pc \in {"attempt", "deliver"} =>
           \A i \in 1..Len(wire) : wire[i] = ExpectedFrame(device_ids[idx], sent)

C3_Alternation ==
    /\ calls' # calls =>
           \/ calls' = <<"next_message">>
                /\ calls \in { << >>, <<"next_message", "receive_update">> }
           \/ calls' = <<"next_message", "receive_update">> /\ calls = <<"next_message">>
    /\ tried' # tried => calls' = <<"next_message">>
    /\ wire' # wire => calls' = <<"next_message">>

\* C3: a poll calls next_message once, then makes its bus attempts, every
\* one carrying the bytes next_message returned, then calls receive_update
\* once; next_message and receive_update alternate over the whole run.
C3_OneFrameInFlight == []C3_PollShape /\ [][C3_Alternation]_vars

\* C3 witness: a poll that wrote its frame three times has been delivered.
C3_Witness ==
    /\ calls = <<"next_message", "receive_update">>
    /\ Len(wire) = 3
    /\ wire[1] = wire[3]

(***************************************************************************)
(* Properties of the device health record                                  *)
(***************************************************************************)
\* The status the table of run() gives a poll result.
StatusFor(result) ==
    IF result.ok THEN "OnlineOK"
    ELSE IF result.err[1] \in {"Timeout", "BusError"} THEN "Offline"
    ELSE "OnlineCorruptReplies"

\* C4: once a device has been polled, its failures counter is 0 exactly when
\* its last poll was Ok, its status is the one the table gives that last
\* outcome, and failures is 0 whenever the status is OnlineOK.
C4_HealthRecord ==
    \A id \in DOMAIN devices :
        (id \in DOMAIN outcome /\ IsSome(outcome[id])) =>
            LET last == Unwrap(outcome[id])
            IN  /\ (devices[id].failures = 0) <=> last.ok
                /\ devices[id].status = StatusFor(last)
                /\ devices[id].status = "OnlineOK" => devices[id].failures = 0

(***************************************************************************)
(* Properties of run() and the backoff table                               *)
(***************************************************************************)
C5_OfflineRecorded ==
    \A id \in DOMAIN devices :
        devices[id].status = "Offline" => id \in DOMAIN backoff_devices

C5_AbsentIsPolled ==
    (pc = "visit" /\ device_ids[idx] \notin DOMAIN backoff_devices /\ pc' # pc)
        => pc' = "poll" /\ idx' = idx

\* C5: a device whose status is Offline has an entry in the backoff table;
\* a device with no entry is polled when the loop next visits it.
C5_OfflineInBackoff == []C5_OfflineRecorded /\ [][C5_AbsentIsPolled]_vars

\* C5 witness: an Offline device is being skipped.
C5_Witness ==
    \E id \in DOMAIN devices :
        /\ devices[id].status = "Offline"
        /\ id \in DOMAIN backoff_devices
        /\ skipped[id] > 0

\* The Some results a marking is followed by when it is the round-th in a
\* row on an entry that was never removed.
SkipsOfRound(k) == Min(Pow2(k - 1), 16)

\* C6: from an empty table, the k-th round of {mark; visit until None} has
\* visit_device return Some exactly min(2^(k-1), 16) times before the None,
\* and no exponent in the table exceeds 4.
C6_RoundLengths ==
    /\ \A id \in DOMAIN backoff_devices : backoff_devices[id][2] <= 4
    /\ \A id \in DeviceIds :
         /\ (round >= 1 /\ lastVisit \in {"marked", "skipped"})
                => skipped[id] < SkipsOfRound(round) + (IF lastVisit = "skipped" THEN 1 ELSE 0)
                   /\ id \in DOMAIN backoff_devices
                   /\ backoff_devices[id][1] = 1 + SkipsOfRound(round) - skipped[id]
         /\ (round >= 1 /\ lastVisit = "expired")
                => skipped[id] = SkipsOfRound(round)

\* C6 witness: the sixth round in a row has ended after 16 skipped visits.
C6_Witness ==
    /\ round = 6
    /\ lastVisit = "expired"
    /\ \A id \in DeviceIds : skipped[id] = 16 /\ backoff_devices[id] = <<0, 4>>

\* What C7 says of every step but the re-marking of an expired entry.
C7_Common ==
    LET id == device_ids[idx] IN
    /\ \* an expired entry that is visited again is removed, and the device polled
       (pc = "visit" /\ id \in DOMAIN backoff_devices /\ backoff_devices[id][1] = 0
            /\ pc' # pc)
          => pc' = "poll" /\ id \notin DOMAIN backoff_devices'
    /\ \* a device with no entry that goes Offline starts at 1 skipped cycle
       (pc = "deliver" /\ pc' # pc /\ id \notin DOMAIN backoff_devices
            /\ devices'[id].status = "Offline")
          => backoff_devices'[id] = <<2, 0>>
    /\ \* a poll not classified Offline leaves the table alone
       (pc = "deliver" /\ pc' # pc /\ devices'[id].status # "Offline")
          => backoff_devices' = backoff_devices
    /\ \* a poll begins after exactly 2^max_backoff skipped cycles
       (pc = "visit" /\ pc' = "poll")
          => skipped[id] = IF id \in DOMAIN backoff_devices'
                           THEN Pow2(backoff_devices'[id][2]) ELSE 0

\* The step C7 speaks of last: the poll made when the counter expired is
\* classified Offline.
ExpiryPollOffline ==
    /\ pc = "deliver"
    /\ pc' # pc
    /\ device_ids[idx] \in DOMAIN backoff_devices
    /\ devices'[device_ids[idx]].status = "Offline"

\* C7 as stated: an entry visited again after it expired is removed, so the
\* next marking starts at 1 skipped cycle; a device whose poll at expiry is
\* not classified Offline loses its history at that next visit, and one
\* classified Offline at that poll gets a larger exponent.
C7_Original ==
    [][ /\ C7_Common
        /\ ExpiryPollOffline =>
             backoff_devices'[device_ids[idx]][2] > backoff_devices[device_ids[idx]][2]
      ]_vars

\* C7 amended: as C7, but the exponent of a device classified Offline at
\* the poll made at expiry becomes min(exponent + 1, 4): it is larger
\* unless it was 4 already, and then it stays 4.
C7_Amended ==
    [][ /\ C7_Common
        /\ ExpiryPollOffline =>
             LET e == backoff_devices[device_ids[idx]]
                 m == IF e[2] < 4 THEN e[2] + 1 ELSE 4
             IN  backoff_devices'[device_ids[idx]] = <<1 + Pow2(m), m>>
      ]_vars

\* C7 witness: an entry that expired, and whose device then answered, has
\* been removed at the next visit and the device is about to be polled again.
C7_Witness ==
    /\ pc = "poll"
    /\ lastVisit = "removed"
    /\ device_ids[idx] \notin DOMAIN backoff_devices
    /\ devices[device_ids[idx]].status = "OnlineOK"

\* C8 as stated: a marking issued right after the None that ends a backoff
\* period, with no visit in between, is followed by one Some and then None.
C8_Original ==
    \A id \in DeviceIds :
        (round >= 2 /\ lastVisit = "expired") => skipped[id] = 1

\* A visit of an entry that is spent or gone returns None and changes nothing
\* but the removal of the entry.
C8_NoneUntilMarked ==
    \A id \in DeviceIds :
        (lastVisit \in {"expired", "removed", "absent"} /\ lastVisit' # "marked")
            => /\ lastVisit' \in {"removed", "absent"}
               /\ id \notin DOMAIN backoff_devices'
               /\ skipped' = skipped

\* The skipped visits of a period, by what came before its marking: 1 when
\* the entry had been removed by a further visit (or never existed), and
\* min(2 * the previous period's, 16) when the marking came right after the
\* None that ended the previous period.
C8_PeriodLength ==
    \A id \in DeviceIds :
        lastVisit = "expired" =>
            /\ round = 1 => skipped[id] = 1
            /\ round >= 2 => skipped[id] = Min(2 * prev_skipped, 16)

\* C8, amended: after the visits that return Some a visit returns None, and
\* so does every further visit until the next marking; a marking restarts
\* the backoff at 1 skipped cycle only when such a further visit came
\* first, and otherwise doubles the period (up to 16).
C8_Amended == []C8_PeriodLength /\ [][C8_NoneUntilMarked]_vars

\* C8 witness: a device backed off for 4 cycles, visited once more after the
\* None and marked again, was skipped once and is due.
C8_Witness ==
    /\ round = 1 /\ prev_skipped = 4
    /\ lastVisit = "expired"
    /\ \A id \in DeviceIds : skipped[id] = 1 /\ backoff_devices[id] = <<0, 0>>

\* C9: the longest run of cycles in which a device is skipped.
C9_SkipBound == \A id \in DOMAIN skipped : skipped[id] <= 16

\* run() is about to poll device id.
Polling(id) == pc = "poll" /\ device_ids[idx] = id

\* The device has been followed to the bound on its failures in a row.
FollowedToBound(id) ==
    /\ pc = "deliver" /\ device_ids[idx] = id
    /\ ~Followed(devices[id], Classify(devices[id], reply_status))

\* C9: a device whose polls all end in Timeout or BusError is still polled
\* infinitely often: it is never skipped for more than 16 cycles in a row,
\* and no state is reached from which it is not polled again.
C9_ReprobedForever ==
    /\ []C9_SkipBound
    /\ \A id \in DeviceIds : []<>(Polling(id) \/ FollowedToBound(id))

(***************************************************************************)
(* Properties of the keypad                                                *)
(***************************************************************************)
InitialiseMessage == [command |-> 0, data |-> Some(<<14>>)]

\* The bytes of Backlight, Beeper, KeyClicks, Screen, ButtonAck and Ping.
OnlineCommands == {13, 12, 25, 7, 11, 6}

\* C10: a call of next_message returns (0x00, [0x0E]) exactly when last_state
\* is None at the call; the first call on a new keypad returns it, and while
\* last_state is Some only Backlight, Beeper, KeyClicks, Screen, ButtonAck or
\* Ping is returned.
C10_Step ==
    (lastCall # "next_message" /\ lastCall' = "next_message") =>
        /\ (sent' = InitialiseMessage) <=> IsNone(last_state)
        /\ IsSome(last_state) => sent'.command \in OnlineCommands
        /\ lastCall = "none" => sent' = InitialiseMessage

C10_InitialiseIffOffline == [][C10_Step]_vars

\* C10 witness: a keypad that was online and reported a key has been lost
\* and is sent Initialise again.
C10_Witness ==
    /\ lastCall = "next_message"
    /\ IsNone(last_state)
    /\ sent = InitialiseMessage
    /\ events # << >>

\* This step is a call of receive_update.
ReceiveStep == lastCall = "next_message" /\ lastCall' = "receive_update"

\* This step is a call of next_message.
MessageStep == lastCall # "next_message" /\ lastCall' = "next_message"

\* This step is receive_update handling a successful initialisation.
InitialisedStep ==
    ReceiveStep /\ IsInitialised(Unwrap(delivered')) /\ IsNone(last_state)

EquipmentForced(u) ==
    u.send_backlight /\ u.send_beeper /\ u.send_key_clicks /\ u.send_screen

\* C11 as stated: right after receive_update handles Initialised [08 00 64]
\* with last_state None, last_state is a clone of state and all five
\* force-send booleans are true.
C11_Original ==
    [][ InitialisedStep =>
            /\ last_state' = Some(state)
            /\ EquipmentForced(updates') /\ updates'.send_key_ack
      ]_vars

\* C11 amended: right after receive_update handles Initialised [08 00 64]
\* with last_state None, last_state is a clone of state, the four equipment
\* force-send booleans are true, and send_key_ack is as it was before.
C11_Amended ==
    [][ InitialisedStep =>
            /\ last_state' = Some(state)
            /\ EquipmentForced(updates')
            /\ updates'.send_key_ack = updates.send_key_ack
      ]_vars

\* C11 witness: a keypad whose state had been changed was initialised; no
\* key acknowledgement is pending.
C11_Witness ==
    /\ lastCall = "receive_update"
    /\ IsInitialised(Unwrap(delivered))
    /\ state # DefaultState
    /\ last_state = Some(state)
    /\ EquipmentForced(updates)
    /\ ~updates.send_key_ack

\* The bytes of Backlight, Beeper, KeyClicks and Screen.
EquipmentCommands == {13, 12, 25, 7}

\* C12: after a successful initialisation, and until a delivery error or a
\* BadChecksum reply, next_message returns neither Ping nor ButtonAck before
\* it has returned each of Backlight, Beeper, KeyClicks and Screen, whatever
\* mutate_state does meanwhile; and the first Screen it returns is a full
\* update: after the flags byte its payload starts with 0x17, 0x07.
C12_Step ==
    (MessageStep /\ IsSome(since_init)) =>
        /\ sent'.command \in {6, 11} => EquipmentCommands \subseteq Unwrap(since_init)
        /\ (sent'.command = 7 /\ 7 \notin Unwrap(since_init)) =>
              LET data == Unwrap(sent'.data)
              IN  Len(data) >= 3 /\ data[2] = 23 /\ data[3] = 7

C12_ResyncBeforePing == [][C12_Step]_vars

\* C12 witness: after an initialisation the four equipment commands have
\* all been returned, the state having been changed meanwhile, and a Ping
\* follows.
C12_Witness ==
    /\ lastCall = "next_message"
    /\ sent.command = 6
    /\ since_init = Some(EquipmentCommands \cup {6})
    /\ state # DefaultState

\* An equipment field of cur differs from last, or its force flag is set.
BacklightDue(cur, last, u) == u.send_backlight \/ cur.backlight # last.backlight
BeeperDue(cur, last, u) == u.send_beeper \/ cur.beeper # last.beeper
KeyClicksDue(cur, last, u) == u.send_key_clicks \/ cur.key_clicks # last.key_clicks
ScreenDue(cur, last, u) ==
    u.send_screen \/ cur.screen # last.screen \/ cur.blink # last.blink

\* C13: while online, next_message returns the command of the first of the
\* branches Backlight, Beeper, KeyClicks, Screen, ButtonAck, Ping whose
\* condition holds: ButtonAck only when send_key_ack is set and no equipment
\* field differs from last_state and no equipment force flag is set, Ping
\* only when send_key_ack is false as well.
C13_Step ==
    (MessageStep /\ IsSome(last_state)) =>
        LET cur == state
            last == Unwrap(last_state)
            equipment == \/ BacklightDue(cur, last, updates)
                         \/ BeeperDue(cur, last, updates)
                         \/ KeyClicksDue(cur, last, updates)
                         \/ ScreenDue(cur, last, updates)
        IN  /\ sent'.command =
                  IF BacklightDue(cur, last, updates) THEN 13
                  ELSE IF BeeperDue(cur, last, updates) THEN 12
                  ELSE IF KeyClicksDue(cur, last, updates) THEN 25
                  ELSE IF ScreenDue(cur, last, updates) THEN 7
                  ELSE IF updates.send_key_ack THEN 11
                  ELSE 6
            /\ sent'.command = 11 => updates.send_key_ack /\ ~equipment
            /\ sent'.command = 6 => ~updates.send_key_ack /\ ~equipment

C13_Priority == [][C13_Step]_vars

\* C13 witness: with a key acknowledgement pending and the backlight
\* changed, Backlight has been returned and the acknowledgement still waits.
C13_Witness ==
    /\ lastCall = "next_message"
    /\ sent.command = 13
    /\ updates.send_key_ack
    /\ since_init = Some(EquipmentCommands \cup {6, 13})

\* C14: a call of receive_update with any Err, or with an Ok reply whose
\* command is 0xF2, leaves last_state None and state, tamper, the five force
\* flags and both freshness bits as they were; the next next_message
\* returns Initialise.
C14_Step ==
    /\ (ReceiveStep /\ IsLoss(Unwrap(delivered'))) =>
          /\ last_state' = None
          /\ state' = state
          /\ tamper' = tamper
          /\ updates' = updates
    /\ (MessageStep /\ IsSome(delivered) /\ IsLoss(Unwrap(delivered))) =>
          sent' = InitialiseMessage

C14_LossResets == [][C14_Step]_vars

\* C14 witness: an online keypad, with a key acknowledgement pending and
\* tamper set, was sent a Backlight command and has been given a
\* BadChecksum reply to it.
C14_Witness ==
    /\ lastCall = "receive_update"
    /\ delivered = Some(Reply(242, None))
    /\ last_state = None
    /\ sent.command = 13
    /\ updates.send_key_ack
    /\ tamper

\* C15: over the whole life of a keypad, re-initialisations included, the
\* k-th Screen command returned carries screen flag 0x00 for odd k and 0x80
\* for even k, and the k-th key acknowledgement returned carries key flag
\* 0x00 for odd k and 0x02 for even k; so the first ButtonAck is
\* (0x0B, [0x00]) and the second (0x0B, [0x02]).
C15_FreshnessPhase ==
    lastCall = "next_message" =>
        /\ sent.command = 7 =>
              (BitSet(Unwrap(sent.data)[1], 128) <=> screens = 0)
        /\ IsKeyAck(sent) =>
              (BitSet(Unwrap(sent.data)[1], 2) <=> key_acks = 0)

\* C16: over a poll, screen_update_flag changes exactly when a Screen frame
\* was written to the bus in that poll, and key_update_flag exactly when a
\* frame carrying a key acknowledgement was; a poll whose every bus write
\* fails leaves both as they were.
C16_ToggleIffWritten ==
    pc = "deliver" =>
        /\ (updates.screen_update_flag # poll_flags[1])
              <=> (sent.command = 7 /\ wire # << >>)
        /\ (updates.key_update_flag # poll_flags[2])
              <=> (IsKeyAck(sent) /\ wire # << >>)

\* C17: with the manager task and the UI tasks interleaved at the
\* granularity of the locks, next_message never returns a key
\* acknowledgement (ButtonAck, or Screen with flag 0x10) for a key before
\* the KeyPress event of that key has been sent on the channel.
C17_Step ==
    (MessageStep /\ IsKeyAck(sent')) =>
        /\ accepted # << >>
        /\ Len(events) = Len(accepted)
        /\ events[Len(events)] = accepted[Len(accepted)]

C17_AckAfterEvent == [][C17_Step]_vars

\* C17 witness: a key acknowledgement has been returned while a UI task
\* held a receiver, the event of its key having been sent.
C17_Witness ==
    /\ lastCall = "next_message"
    /\ IsKeyAck(sent)
    /\ events = accepted /\ events # << >>
    /\ subscribers > 0
    /\ handler = None

\* C18: in receive_update's handling of an AckWithKey reply that reports a
\* new key, the KeyPress event is sent on the channel before send_key_ack
\* is set: in no state is send_key_ack set for a key whose event has not
\* been sent.
C18_EventBeforeFlag == Len(accepted) = Len(events)

\* "0123456789BAEX*#"
KeyCharacters == <<48, 49, 50, 51, 52, 53, 54, 55, 56, 57, 66, 65, 69, 88, 42, 35>>

\* The reply is AckWithKey with one payload byte.
IsKeyReport(msg) ==
    /\ msg.ok
    /\ Unwrap(msg.msg).command = 244
    /\ IsSome(Unwrap(msg.msg).additional_data)
    /\ Len(Unwrap(Unwrap(msg.msg).additional_data)) = 1

KeyByte(msg) == Unwrap(Unwrap(msg.msg).additional_data)[1]

\* C19: receive_update given AckWithKey with one payload byte b # 0x7F
\* publishes exactly the event KeyPress(KEYS[b & 0x0F]) and sets
\* send_key_ack when send_key_ack is false, and publishes nothing and leaves
\* send_key_ack true when it is true; for b = 0x7F it publishes nothing and
\* leaves send_key_ack as it was.
C19_Step ==
    (ReceiveStep /\ IsKeyReport(Unwrap(delivered'))) =>
        LET b == KeyByte(Unwrap(delivered'))
        IN  IF b = 127
            THEN events' = events /\ updates'.send_key_ack = updates.send_key_ack
            ELSE IF ~updates.send_key_ack
            THEN /\ events' = Append(events, KeyCharacters[(b % 16) + 1])
                 /\ updates'.send_key_ack
            ELSE /\ events' = events
                 /\ updates'.send_key_ack

C19_KeyReports == [][C19_Step]_vars

\* C19 witness: key A was reported and published; with its acknowledgement
\* still pending a report of key 5 has come and was dropped.
C19_Witness ==
    /\ lastCall = "receive_update"
    /\ delivered = Some(Reply(244, Some(<<5>>)))
    /\ events = <<65>>
    /\ updates.send_key_ack

\* The value of tamper after receive_update was given msg with tamper at old.
TamperAfter(msg, old, offline) ==
    IF ~msg.ok THEN old
    ELSE IF Unwrap(msg.msg).command = 254 THEN FALSE
    ELSE IF IsInitialised(msg) /\ offline THEN FALSE
    ELSE IF IsKeyReport(msg)
         THEN KeyByte(msg) = 127 \/ BitSet(KeyByte(msg), 64)
    ELSE old

\* C20: tamper is false after an Ack or a successful initialisation; after
\* AckWithKey with one payload byte b it is true iff b = 0x7F or b has bit
\* 0x40, also when the key report is dropped as a duplicate; every other
\* reply, every delivery error and every other call leaves it unchanged.
C20_Step ==
    IF ReceiveStep
    THEN tamper' = TamperAfter(Unwrap(delivered'), tamper, IsNone(last_state))
    ELSE tamper' = tamper

C20_TamperFollowsReplies == [][C20_Step]_vars

\* C20 witness: a key report with the tamper bit arrives while the
\* acknowledgement of key 5 is pending; it is dropped and tamper is set.
C20_Witness ==
    /\ lastCall = "receive_update"
    /\ delivered = Some(Reply(244, Some(<<75>>)))
    /\ events = <<53>>
    /\ updates.send_key_ack
    /\ tamper

(***************************************************************************)
(* Properties of the screen diff                                           *)
(***************************************************************************)
\* The keypad's display: two rows of 16 cells, the cursor (an offset, row
\* times 0x40 plus column; -1 while nothing has placed it) and its style.
Shown(scr) ==
    [cells |-> <<[j \in 1..16 |-> IF j <= Len(scr.lines[1]) THEN scr.lines[1][j] ELSE 32],
                 [j \in 1..16 |-> IF j <= Len(scr.lines[2]) THEN scr.lines[2][j] ELSE 32]>>,
     cursor |-> -1,
     style |-> scr.cursor_style]

\* The display after a character: it goes into the cell under the cursor,
\* and the cursor moves one to the right.
Typed(dev, ch) ==
    IF dev.cursor < 0 THEN dev
    ELSE LET row == dev.cursor \div 64
             col == dev.cursor % 64
         IN  [dev EXCEPT !.cells = IF row < 2 /\ col < 16
                                   THEN [dev.cells EXCEPT ![row + 1][col + 1] = ch]
                                   ELSE dev.cells,
                         !.cursor = dev.cursor + 1]

RECURSIVE Feed(_, _)
\* The display after the bytes of a screen payload.
Feed(dev, bytes) ==
    IF bytes = << >> THEN dev
    ELSE LET b == Head(bytes)
             rest == Tail(bytes)
         IN  CASE b = 1  -> Feed([dev EXCEPT !.cursor = 0], rest)
               [] b = 2  -> Feed([dev EXCEPT !.cursor = 64], rest)
               [] b = 3  -> IF rest = << >> THEN dev
                            ELSE Feed([dev EXCEPT !.cursor = Head(rest)], Tail(rest))
               [] b = 6  -> Feed([dev EXCEPT !.style = "Block"], rest)
               [] b = 7  -> Feed([dev EXCEPT !.style = "None"], rest)
               [] b = 16 -> Feed([dev EXCEPT !.style = "Underline"], rest)
               [] b = 23 -> Feed([cells |-> <<[j \in 1..16 |-> 32], [j \in 1..16 |-> 32]>>,
                                  cursor |-> -1, style |-> dev.style], rest)
               [] OTHER  -> Feed(Typed(dev, b), rest)

\* C21: the bytes partial_update returns for (from, to), applied to a display
\* showing from, leave its cells showing to (padded with spaces to 16
\* columns) and its cursor in the style of to.
C21_DiffSound ==
    (IsSome(output) /\ Unwrap(output).op = "partial_update") =>
        LET from == Unwrap(input).from
            to == Unwrap(input).to
            after == Feed(Shown(from), Unwrap(output).data)
        IN  after.cells = Shown(to).cells /\ after.style = to.cursor_style

\* C21 witness: a partial update of both lines that starts at the head of
\* the first line, seeks, types an unchanged character between two changed
\* ones, and changes the cursor style.
C21_Witness ==
    /\ IsSome(output) /\ Unwrap(output).op = "partial_update"
    /\ Unwrap(input).from =
           KeypadDisplayState(StripedLine(16, 0), StripedLine(3, 1), None, "None")
    /\ Unwrap(input).to =
           KeypadDisplayState(StripedLine(16, 2), StripedLine(16, 3), None, "Underline")
    /\ Unwrap(output).data =
           <<1, 66, 65, 66, 65, 66, 65, 66, 65, 66, 65, 66, 65, 66, 65, 66,
             3, 65, 65, 65, 66, 65, 65, 66, 65, 65, 66, 65, 65, 66, 65, 65, 66, 16>>

\* The bytes are not a full update: they do not begin with DISPLAY_RESET.
IsPartial(data) == data = << >> \/ data[1] # 23

\* C22: when strategic_update chooses the partial strategy, the bytes it
\* returns, the cursor-seek postlude included, are at most 40.
C22_PartialLength ==
    (IsSome(output) /\ Unwrap(output).op = "strategic_update"
        /\ IsPartial(Unwrap(output).data)) =>
        Len(Unwrap(output).data) <= 40

\* C22 witness: every cell of two full lines changes and the cursor is to be
\* left in the second line; the partial update is 34 bytes and the seek 2.
C22_Witness ==
    /\ IsSome(output) /\ Unwrap(output).op = "strategic_update"
    /\ Unwrap(input).from =
           KeypadDisplayState(StripedLine(16, 0), StripedLine(16, 0), None, "None")
    /\ Unwrap(input).to =
           KeypadDisplayState(StripedLine(16, 1), StripedLine(16, 1), Some(68), "None")
    /\ IsPartial(Unwrap(output).data)
    /\ Len(Unwrap(output).data) = 36

\* The cells, of the 32 of the two rows, in which two screens differ.
Differing(from, to) ==
    {k \in 1..32 :
        LET row == (k - 1) \div 16
            col == (k - 1) % 16
            a == IF col < Len(from.lines[row + 1]) THEN from.lines[row + 1][col + 1] ELSE 32
            b == IF col < Len(to.lines[row + 1]) THEN to.lines[row + 1][col + 1] ELSE 32
        IN  a # b}

\* 2 x (maximal runs of differing cells) + differing cells + (1 if the
\* cursor style changed)
UpdateScore(from, to) ==
    LET d == Differing(from, to)
    IN  2 * Cardinality({k \in d : k - 1 \notin d}) + Cardinality(d)
            + (IF from.cursor_style # to.cursor_style THEN 1 ELSE 0)

FullScore(to) == 3 + Len(to.lines[1]) + Len(to.lines[2])

\* 0x17, 0x07, each non-empty line after 0x01 / 0x02, then the style opcode
\* unless the style is None.
FullBytes(to) ==
    <<23, 7>>
        \o (IF to.lines[1] # << >> THEN <<1>> \o to.lines[1] ELSE << >>)
        \o (IF to.lines[2] # << >> THEN <<2>> \o to.lines[2] ELSE << >>)
        \o (CASE to.cursor_style = "None" -> << >>
               [] to.cursor_style = "Block" -> <<6>>
               [] to.cursor_style = "Underline" -> <<16>>)

\* data is body, or body and a cursor seek after it.
IsUpdate(data, body) ==
    /\ Len(data) \in {Len(body), Len(body) + 2}
    /\ SubSeq(data, 1, Len(body)) = body
    /\ Len(data) > Len(body) => data[Len(body) + 1] = 3

EndsWithSeek(body, off) ==
    Len(body) >= 2 /\ body[Len(body) - 1] = 3 /\ body[Len(body)] = off

\* C24: every Screen command next_command returns for a screen whose
\* cursor_position is Some(off) ends with 0x03, off, unless its update
\* leaves the cursor at off.
C24_CursorPostlude ==
    (IsSome(output) /\ Unwrap(output).op = "next_command"
        /\ Unwrap(output).command = "Screen"
        /\ IsSome(Unwrap(input).to.cursor_position)) =>
        LET off == Unwrap(Unwrap(input).to.cursor_position)
            body == Tail(Unwrap(output).data)
        IN  EndsWithSeek(body, off)
                \/ Feed(Shown(Unwrap(input).from), body).cursor = off

(***************************************************************************)
(* Properties of the checksum                                              *)
(***************************************************************************)
\* C25 as stated: s with galaxy_crc(s) appended passes check_galaxy_crc, and
\* with any one byte replaced by another value it does not.
C25_Original ==
    (IsSome(output) /\ Unwrap(output).op = "check_galaxy_crc") =>
        (Unwrap(output).ok <=> IsNone(Unwrap(output).replaced))

\* The byte at position i of the sealed sequence was 0x00 and is 0xFF, or
\* was 0xFF and is 0x00.
SwapsZeroAndFF(s, frame, i) ==
    /\ i <= Len(s)
    /\ {s[i], frame[i]} = {0, 255}

\* C25 amended: s with galaxy_crc(s) appended passes check_galaxy_crc; with
\* one byte replaced by another value it fails, except when a 0x00 of s was
\* replaced by 0xFF or a 0xFF by 0x00, which passes.
C25_Amended ==
    (IsSome(output) /\ Unwrap(output).op = "check_galaxy_crc") =>
        LET o == Unwrap(output)
        IN  o.ok <=> (IsNone(o.replaced)
                        \/ SwapsZeroAndFF(Unwrap(input).s, o.frame, Unwrap(o.replaced)))

\* C25 witness: 10 00 0E C8 with the 0x00 replaced by 0xFF passes, and the
\* frame with its checksum replaced does not.
C25_Witness ==
    /\ IsSome(output) /\ Unwrap(output).op = "check_galaxy_crc"
    /\ Unwrap(input).s = <<16, 0, 14>>
    /\ Unwrap(output).frame = <<16, 255, 14, 200>>
    /\ Unwrap(output).ok

RECURSIVE Folded(_)
\* sum = (sum & 0xFF) + (sum >> 8) until sum <= 0xFF
Folded(sum) == IF sum <= 255 THEN sum ELSE Folded((sum % 256) + (sum \div 256))

\* C26: for every way of cutting a byte sequence into slices,
\* galaxy_crc_vectored of the slices is galaxy_crc of the sequence, which is
\* 0xAA plus every byte, in 16 bits, folded; crc(10 00 0E) = C8.
C26_ScatterGather ==
    (IsSome(output) /\ Unwrap(output).op = "galaxy_crc_vectored") =>
        /\ Unwrap(output).vectored = Unwrap(output).whole
        /\ Unwrap(output).whole = Some(Folded((170 + SumBytes(Unwrap(input).s)) % 65536))
        /\ Unwrap(input).s = <<16, 0, 14>> => Unwrap(output).whole = Some(200)

(***************************************************************************)
(* Properties of the message framing                                       *)
(***************************************************************************)
\* C27: deserialise(serialise(m)) is Ok(m) when m has additional data of
\* length >= 1, and Ok with the address and command of m and no additional
\* data when m has none; deserialise of two bytes is Err(MissingCrc), and of
\* a frame with a wrong last byte Err(CrcFailed).
C27_RoundTrip ==
    IsSome(output) =>
        LET m == Unwrap(input).m
            o == Unwrap(output)
        IN  /\ (o.op = "round_trip" /\ IsSome(m.additional_data)
                    /\ Len(Unwrap(m.additional_data)) >= 1)
                  => o.result = Some(Ok(m))
            /\ (o.op = "round_trip" /\ IsNone(m.additional_data))
                  => o.result = Some(Ok(SerialMessage(m.recipient_address, m.command, None)))
            /\ o.op = "two_bytes" => o.result = Some(Err(<<"MissingCrc">>))
            /\ o.op = "wrong_crc" => o.result = Some(Err(<<"CrcFailed">>))

(***************************************************************************)
(* Properties of the bus transaction                                       *)
(***************************************************************************)
\* What the claim gives for a completed read of the bytes reply.
ReadVerdict(reply) ==
    LET n == Len(reply)
    IN  IF n = 0 THEN [ok |-> FALSE, n |-> 0, err |-> <<"NoData">>]
        ELSE IF n < 3 THEN [ok |-> FALSE, n |-> 0, err |-> <<"InsufficientData">>]
        ELSE IF reply[1] # 17
             THEN [ok |-> FALSE, n |-> 0, err |-> <<"InvalidReplyRecipient", reply[1]>>]
        ELSE IF reply[n] # Folded((170 + SumBytes(SubSeq(reply, 1, n - 1))) % 65536)
             THEN [ok |-> FALSE, n |-> 0, err |-> <<"CrcCheckFailed">>]
        ELSE [ok |-> TRUE, n |-> n - 1, err |-> << >>]

\* C28: for a read that completes with n bytes send_receive_buffered returns
\* NoData if n = 0, else InsufficientData if n < 3, else
\* InvalidReplyRecipient(reply[0]) if reply[0] is not 0x11, else
\* CrcCheckFailed if the last byte is not the checksum of the others, else
\* Ok(n - 1); for a read that does not complete in time it returns Timeout.
C28_ReadChecks ==
    (IsSome(output) /\ Unwrap(output).op = "send_receive_buffered"
        /\ Unwrap(input).port.write) =>
        LET port == Unwrap(input).port
            result == Unwrap(output).result
        IN  /\ port.read = "data" => result = ReadVerdict(port.bytes)
            /\ port.read = "timeout" =>
                   result = [ok |-> FALSE, n |-> 0, err |-> <<"Timeout">>]

\* C28 witness: a reply of three bytes addressed to the keypad, with a wrong
\* checksum as well, is refused for its recipient.
C28_Witness ==
    /\ IsSome(output) /\ Unwrap(output).op = "send_receive_buffered"
    /\ Unwrap(input).port = Port(TRUE, "data", <<16, 254, 186>>)
    /\ Unwrap(output).result.err = <<"InvalidReplyRecipient", 16>>

(***************************************************************************)
(* Properties of the health bookkeeping after a failed poll                *)
(***************************************************************************)
\* The step ends a poll whose last bus transaction returned a ReadError.
EndsFailedPoll == pc = "deliver" /\ pc' # "deliver" /\ IsSome(bus_error)

\* C29: a poll whose final bus outcome is Timeout, NoData,
\* InvalidReplyRecipient or IoError leaves the device Offline and marked into
\* backoff; one whose final bus outcome is CrcCheckFailed or InsufficientData
\* leaves it OnlineCorruptReplies and not marked; in both cases failures is
\* one more than before and the keypad was given receive_update(Err(_)).
C29_FailedPoll ==
    [][EndsFailedPoll =>
        LET id == device_ids[idx]
            kind == Unwrap(bus_error)[1]
        IN  /\ IsSome(delivered') /\ ~Unwrap(delivered').ok
            /\ lastCall' = "receive_update"
            /\ devices'[id].failures = devices[id].failures + 1
            /\ kind \in {"Timeout", "NoData", "InvalidReplyRecipient", "IoError"} =>
                   /\ devices'[id].status = "Offline"
                   /\ id \in DOMAIN backoff_devices'
                   /\ lastVisit' = "marked"
            /\ kind \in {"CrcCheckFailed", "InsufficientData"} =>
                   /\ devices'[id].status = "OnlineCorruptReplies"
                   /\ backoff_devices' = backoff_devices
            /\ kind \in {"Timeout", "NoData", "InvalidReplyRecipient", "IoError",
                         "CrcCheckFailed", "InsufficientData"}]_vars

(***************************************************************************)
(* Properties of the order of the cycle                                    *)
(***************************************************************************)
\* The step is the head of the for loop body, for the device at idx.
VisitStep == pc = "visit" /\ <<pc, idx>>' # <<pc, idx>>

\* C30: in every cycle the devices are visited in the order of their
\* registration, and a device for which visit_device returns Some is passed
\* over without being polled.
C30_VisitOrder ==
    [][VisitStep =>
        LET id == device_ids[idx]
        IN  /\ Len(device_ids) = Len(registered)
            /\ id = registered[idx]
            /\ IsSome(visit_device(backoff_devices, id).result) =>
                   /\ pc' # "poll"
                   /\ calls' = calls
                   /\ devices' = devices]_vars

\* The part of C30 that holds: the devices are visited in the order of
\* device_ids, each once a cycle, and one in backoff is not polled.
VisitsInCollectedOrder ==
    [][VisitStep =>
        LET id == device_ids[idx]
        IN  /\ {device_ids[i] : i \in 1..Len(device_ids)} = DOMAIN devices
            /\ Len(device_ids) = Cardinality(DOMAIN devices)
            /\ IsSome(visit_device(backoff_devices, id).result) =>
                   /\ pc' # "poll"
                   /\ calls' = calls
                   /\ devices' = devices
                   /\ <<pc, idx>>' = IF idx < Len(device_ids) THEN <<"visit", idx + 1>>
                                     ELSE <<"sleep", 1>>]_vars

(***************************************************************************)
(* Properties of what next_message leaves behind                           *)
(***************************************************************************)
\* The equipment fields of State other than those in keep are the same in a
\* and b.
SameFieldsBut(a, b, keep) ==
    \A f \in {"backlight", "beeper", "key_clicks", "screen", "blink"} \ keep : a[f] = b[f]

\* The equipment force flags other than those in keep are the same in u and v.
SameForcesBut(u, v, keep) ==
    \A f \in {"send_backlight", "send_beeper", "send_key_clicks", "send_screen"} \ keep :
        u[f] = v[f]

\* What C31 says of a call that returned command c, but for the blink of a
\* Screen command.
EmissionEffect(c, cur, last, last2, u, u2) ==
    /\ c = 13 => /\ last2.backlight = cur.backlight /\ ~u2.send_backlight
                 /\ SameFieldsBut(last2, last, {"backlight"})
                 /\ SameForcesBut(u2, u, {"send_backlight"})
    /\ c = 12 => /\ last2.beeper = cur.beeper /\ ~u2.send_beeper
                 /\ SameFieldsBut(last2, last, {"beeper"})
                 /\ SameForcesBut(u2, u, {"send_beeper"})
    /\ c = 25 => /\ last2.key_clicks = cur.key_clicks /\ ~u2.send_key_clicks
                 /\ SameFieldsBut(last2, last, {"key_clicks"})
                 /\ SameForcesBut(u2, u, {"send_key_clicks"})
    /\ c = 7 =>  /\ last2.screen = cur.screen /\ ~u2.send_screen
                 /\ SameFieldsBut(last2, last, {"screen", "blink"})
                 /\ SameForcesBut(u2, u, {"send_screen"})

\* C31: after next_message returns Backlight, Beeper or KeyClicks the field
\* of last_state equals that of state and its force flag is false; after it
\* returns Screen, last_state.screen and last_state.blink equal those of
\* state and send_screen is false; the fields and force flags of the other
\* branches are as they were.
C31_EmissionEffect ==
    [][(MessageStep /\ IsSome(last_state)) =>
          /\ EmissionEffect(sent'.command, state, Unwrap(last_state), Unwrap(last_state'),
                            updates, updates')
          /\ sent'.command = 7 => Unwrap(last_state').blink = state.blink]_vars

\* The part of C31 that holds: all of it but the blink of a Screen command.
EmissionEffectButBlink ==
    [][(MessageStep /\ IsSome(last_state)) =>
          EmissionEffect(sent'.command, state, Unwrap(last_state), Unwrap(last_state'),
                         updates, updates')]_vars

\* C32: the first payload byte of a Screen command is 0x01, the screen bit,
\* 0x10 with the key bit if send_key_ack was set, and 0x08 if state.blink;
\* a send_key_ack that was set is cleared by the command, so that no later
\* ButtonAck acknowledges the same key, and key_update_flag is toggled in
\* that case only.
C32_DisplayFlags ==
    [][(MessageStep /\ sent'.command = 7) =>
          LET byte == Unwrap(sent'.data)[1]
          IN  /\ BitSet(byte, 1)
              /\ ~BitSet(byte, 4) /\ ~BitSet(byte, 32) /\ ~BitSet(byte, 64)
              /\ BitSet(byte, 8) <=> state.blink
              /\ BitSet(byte, 16) <=> updates.send_key_ack
              /\ BitSet(byte, 2) => BitSet(byte, 16)
              /\ ~updates'.send_key_ack
              /\ updates'.screen_update_flag # updates.screen_update_flag
              /\ (updates'.key_update_flag # updates.key_update_flag)
                     <=> updates.send_key_ack
              /\ key_acks' # key_acks <=> updates.send_key_ack]_vars

\* C32 witness: a Screen command has been returned that carries the
\* acknowledgement of a key, with blink set, and nothing is pending after it.
C32_Witness ==
    /\ lastCall = "next_message"
    /\ sent.command = 7
    /\ BitSet(Unwrap(sent.data)[1], 16) /\ BitSet(Unwrap(sent.data)[1], 8)
    /\ events # << >>
    /\ ~updates.send_key_ack

(***************************************************************************)
(* Properties of the replies receive_update ignores                        *)
(***************************************************************************)
\* The replies C33 lists, for a keypad whose last_state is last_opt.
IsIgnored(reply, last_opt) ==
    LET data == reply.additional_data
    IN  \/ reply.command = 255 /\ IsSome(last_opt)
        \/ reply.command = 255 /\ (IsNone(data) \/ Len(Unwrap(data)) # 3)
        \/ reply.command = 255 /\ IsSome(data) /\ Unwrap(data) # <<8, 0, 100>>
        \/ reply.command = 244 /\ (IsNone(data) \/ Len(Unwrap(data)) # 1)
        \/ reply.command \notin {255, 254, 244, 242}

\* C33: receive_update leaves last_state, tamper and updates as they were
\* and sends no event when the reply is Initialised while last_state is
\* Some, Initialised with a payload that is missing, not 3 bytes long or not
\* 08 00 64, AckWithKey with a payload that is missing or not 1 byte long,
\* or a reply of an unknown command.
C33_IgnoredReplies ==
    (IsSome(output) /\ Unwrap(output).op = "receive_update") =>
        LET k == Unwrap(input).keypad
            reply == Unwrap(Unwrap(input).msg.msg)
            result == Unwrap(output).result
        IN  IsIgnored(reply, k.last_state) =>
                /\ result.last_state = k.last_state
                /\ result.tamper = k.tamper
                /\ result.updates = k.updates
                /\ IsNone(result.event)

\* C33 witness: an online keypad in tamper was given AckWithKey with a
\* payload of two bytes.
C33_Witness ==
    /\ IsSome(output) /\ Unwrap(output).op = "receive_update"
    /\ Unwrap(input).msg = Reply(244, Some(<<5, 0>>))
    /\ Unwrap(input).keypad.tamper
    /\ IsSome(Unwrap(input).keypad.last_state)
    /\ Unwrap(output).result.tamper

(***************************************************************************)
(* Properties of the full update                                           *)
(***************************************************************************)
\* Where typing the lines of scr from their first columns leaves the cursor:
\* behind the last character of the last line that is not empty.
CursorBehindText(scr) ==
    IF Len(scr.lines[2]) > 0 THEN Some(64 + Len(scr.lines[2]))
    ELSE IF Len(scr.lines[1]) > 0 THEN Some(Len(scr.lines[1]))
    ELSE None

\* The cursor of a display as an Option: None while it has not been placed.
CursorOf(dev) == IF dev.cursor < 0 THEN None ELSE Some(dev.cursor)

\* C34: the cursor position full_update returns is where its bytes leave the
\* cursor of the display, 0x40 * i + len(line i) for the last line i that
\* is not empty and None when both are empty; and when strategic_update
\* takes the full update for a screen whose cursor_position is Some(off),
\* its bytes leave the cursor of the display at off.
C34_FullCursor ==
    /\ (IsSome(output) /\ Unwrap(output).op = "full_update") =>
           /\ Unwrap(output).cursor = CursorBehindText(Unwrap(input).to)
           /\ Unwrap(output).cursor =
                  CursorOf(Feed(Shown(Unwrap(input).from), Unwrap(output).data))
    /\ (IsSome(output) /\ Unwrap(output).op = "strategic_update"
           /\ ~IsPartial(Unwrap(output).data)
           /\ IsSome(Unwrap(input).to.cursor_position)) =>
           CursorOf(Feed(Shown(Unwrap(input).from), Unwrap(output).data))
               = Unwrap(input).to.cursor_position

\* The simulated display agrees with the claim on where the text of a full
\* update leaves the cursor.
FullUpdateLeavesCursorBehindText ==
    (IsSome(output) /\ Unwrap(output).op = "full_update") =>
        CursorOf(Feed(Shown(Unwrap(input).from), Unwrap(output).data))
            = CursorBehindText(Unwrap(input).to)

\* What full_update returns instead: one column further.
FullUpdateReportsOneBeyond ==
    (IsSome(output) /\ Unwrap(output).op = "full_update") =>
        Unwrap(output).cursor =
            IF IsNone(CursorBehindText(Unwrap(input).to)) THEN None
            ELSE Some(Unwrap(CursorBehindText(Unwrap(input).to)) + 1)

(***************************************************************************)
(* Properties of the score of the partial update                           *)
(***************************************************************************)
\* C35: the bytes partial_update returns are no more than update_score
\* gives for the same two screens.
C35_ScoreBoundsPartial ==
    (IsSome(output) /\ Unwrap(output).op = "partial_update") =>
        Len(Unwrap(output).data)
            <= update_score(Unwrap(input).to, Unwrap(input).from)

\* The partial update is longer than its score by one byte at most.
PartialWithinOneOfScore ==
    (IsSome(output) /\ Unwrap(output).op = "partial_update") =>
        Len(Unwrap(output).data)
            <= update_score(Unwrap(input).to, Unwrap(input).from) + 1

(***************************************************************************)
(* Properties of the freshness bits over a run                             *)
(***************************************************************************)
\* Bit b of the first payload byte of m, as the value of the bit.
FlagBit(m, b) == IF BitSet(Unwrap(m.data)[1], b) THEN b ELSE 0

\* C36: a Screen command carries the other screen bit (0x00 / 0x80) than the
\* Screen command before it, and a key acknowledgement (ButtonAck, or Screen
\* with 0x10) the other key bit (0x00 / 0x02) than the key acknowledgement
\* before it, whatever delivery errors and initialisations came in between;
\* nothing but a Screen command changes screen_update_flag, and nothing but a
\* command with a key acknowledgement changes key_update_flag.
C36_Step ==
    /\ (MessageStep /\ sent'.command = 7 /\ IsSome(screen_bit)) =>
           FlagBit(sent', 128) # Unwrap(screen_bit)
    /\ (MessageStep /\ IsKeyAck(sent') /\ IsSome(key_bit)) =>
           FlagBit(sent', 2) # Unwrap(key_bit)
    /\ ~(MessageStep /\ sent'.command = 7) =>
           updates'.screen_update_flag = updates.screen_update_flag
    /\ ~(MessageStep /\ IsKeyAck(sent')) =>
           updates'.key_update_flag = updates.key_update_flag

C36_BitsAlternate == [][C36_Step]_vars

\* C36 witness: the second key acknowledgement has been returned, in a
\* Screen command, after a delivery error and a new initialisation came
\* between it and the Screen command before it.
C36_Witness ==
    /\ lastCall = "next_message"
    /\ sent.command = 7 /\ IsKeyAck(sent)
    /\ acks = 2
    /\ since_init = Some({13, 12, 25, 7})
    /\ screens = 0

(***************************************************************************)
(* Properties of the keypad once its tasks have gone quiet                 *)
(***************************************************************************)
\* next_message returns nothing but Ping.
OnlyPing == lastCall = "next_message" => sent.command = 6

\* C37: once state is no longer mutated and every reply is a plain Ack, a
\* keypad that is online returns only Ping from some point on.
C37_Quiescence == (quiet /\ IsSome(last_state)) ~> []OnlyPing

\* The part of C37 that holds: the same, when blink is as it was at the last
\* initialisation.
QuiescenceWithBlinkAsInitialised ==
    (quiet /\ IsSome(last_state) /\ Unwrap(last_state).blink = state.blink) ~> []OnlyPing


(***************************************************************************)
(* Properties of the keypad's locks                                        *)
(***************************************************************************)
\* The tasks that task t waits for: the holders of the guards that keep it
\* from the lock it is about to take and, where the RwLock puts writers
\* first, the tasks waiting to write a lock that t is about to read.
Blockers(t) ==
    LET w == Wanted(task_at[t].pos)
    IN  IF IsNone(w) THEN {}
        ELSE {x[1] : x \in Holders(held, Unwrap(w)[1], Unwrap(w)[2])}
             \cup (IF Unwrap(w)[2] = "read" /\ Holders(held, Unwrap(w)[1], "write") # {}
                   THEN {u \in Tasks \ {t} :
                            Wanted(task_at[u].pos) = Some(<<Unwrap(w)[1], "write">>)}
                   ELSE {})

\* Some tasks wait for one another, and so for ever.
Deadlocked ==
    \E D \in (SUBSET Tasks) \ {{}} : \A t \in D : Blockers(t) \cap D # {}

\* C38: in no interleaving of the manager task's next_message and
\* receive_update with the UI tasks' mutate_state, is_tamper and
\* subscribe_events do tasks wait for one another's locks.
C38_NoDeadlock == ~Deadlocked

\* receive_update holds last_state, tamper and updates and waits to read
\* state, which a UI task holds for writing while the other waits for it.
C38_Witness ==
    /\ task_at["manager"].pos = "receive_update:state"
    /\ <<"ui1", "write">> \in held["state"]
    /\ task_at["ui2"].pos = "mutate_state:state"
    /\ Blockers("manager") = {"ui1", "ui2"}


(***************************************************************************)
(* Properties of key presses and their acknowledgements                    *)
(***************************************************************************)
\* C39: between calls, the KeyPress events published so far are one more
\* than the key acknowledgements sent so far (by ButtonAck, or by a Screen
\* command with bit 0x10) while send_key_ack is set, and as many otherwise.
C39_AckBalance == Len(events) - acks = (IF updates.send_key_ack THEN 1 ELSE 0)

\* A second key has been reported after the first was acknowledged.
C39_Witness == Len(events) = 2 /\ acks = 1 /\ updates.send_key_ack


\* C40: while the desired state is not mutated and no delivery error or
\* BadChecksum reply arrives, a key acknowledgement that is pending on a
\* keypad that is online goes out with one of the next 4 frames: never do 4
\* calls of next_message in a row leave it pending.
C40_AckWithinFour == waited < 4

\* Backlight, Beeper and KeyClicks have gone out ahead of the pending key
\* acknowledgement, which the fourth frame carries.
C40_Witness ==
    /\ waited = 3
    /\ lastCall = "next_message"
    /\ IsKeyAck(next_message(state, last_state, updates))

====
